---- MODULE Spec2Model ----
(***************************************************************************)
(* A model of three-first-person-controller: the FirstPersonController     *)
(* camera rig (movement, jump, gravity, ground resolution, crouch blend,   *)
(* look), its KeyboardControls and PointerLockManager collaborators, and   *)
(* the look-only LookController.                                           *)
(*                                                                         *)
(* Numbers.  The program computes in floating point; the model computes    *)
(* exactly, on lattices chosen so that every operation stays exact:        *)
(*   length    1 unit = 1/1600 m       (1.6 m = 2560)                      *)
(*   time      one tick = 0.05 s; velocities are in length units per tick  *)
(*             (8 m/s = 640), accelerations in units per tick^2            *)
(*             (20 m/s^2 = 80)                                             *)
(*   delta     the argument of update() is in units of 0.5 microseconds,   *)
(*             so that the 1e-6 s floor is the integer 2; the effective    *)
(*             deltas the model feeds are whole ticks                      *)
(*   angle     1 unit = 1e-4 rad, with pi/2 taken as 15708 units           *)
(*   factor    multipliers are in hundredths (1.5 = 150)                   *)
(*   x and z   are numbers r + s*sqrt(2) (records [r, s]), which keeps     *)
(*             normalised diagonal movement exact                         *)
(***************************************************************************)
EXTENDS Integers, Sequences, FiniteSets, TLC

VARIABLES
    heap,                  \* the Vector3 objects, by identity (1: state.position, 2: state.velocity)
    yaw, pitch, onGround,  \* ControllerState scalars
    config,                \* PlayerConfig
    lookSensitivity, maxPitch, sprintMultiplier, fieldOfView,
    crouchEnabled, isCrouching, crouchHeight, crouchSpeedMultiplier, currentHeight,
    maxStepHeight, maxSlopeAngle,
    gravityFn, groundCheckFn, jumpCallback,
    pointerLockChangeCallback, pointerLockToggleCallback,
    disposed,
    camera, otherCamera,   \* the bound camera and any other camera of the host
    pressedKeys, keyBindings, pointerLockActive, kbAttached, focused,
    arrays,                \* the key-code arrays, by identity: the keyboard's own and the caller's
    plSupported, plEnabled, plAutoLock, plAttached, plLocked, hostPending,
    snapshots,             \* the objects getState() has handed out
    look,                  \* a LookController instance
    lookCamera,            \* the camera a LookController is bound to
    fixedDelta,            \* the delta of a fixed-rate frame loop, once one runs
    op,                    \* the last operation and its argument
    calls                  \* callbacks and host calls made by the last operation

ctlVars == <<heap, yaw, pitch, onGround, config, lookSensitivity, maxPitch,
             sprintMultiplier, fieldOfView, crouchEnabled, isCrouching, crouchHeight,
             crouchSpeedMultiplier, currentHeight, maxStepHeight, maxSlopeAngle,
             gravityFn, groundCheckFn, jumpCallback, pointerLockChangeCallback,
             pointerLockToggleCallback, disposed, camera>>
kbVars == <<pressedKeys, keyBindings, pointerLockActive, kbAttached, focused, arrays>>
plVars == <<plSupported, plEnabled, plAutoLock, plAttached, plLocked, hostPending>>
lookVars == <<look, lookCamera>>
vars == <<ctlVars, kbVars, plVars, lookVars, otherCamera, snapshots, fixedDelta, op, calls>>

----------------------------------------------------------------------------
(* Units *)

UnitsPerMeter == 16 * 100
TicksPerSecond == 4 * 5
TickUnits == 1000 * 100
HalfPi == 3927 * 4
Hundred == 10 * 10

Ticks(delta) == delta \div TickUnits

(* Optional values: undefined is None, a number n is Some(n). *)
None == << >>
Some(v) == << v >>
Val(o) == o[1]

Has(options, key) == key \in DOMAIN options
Get(options, key) == IF Has(options, key) THEN options[key] ELSE None

(* The one element of a singleton set.  { F(v) : v \in {e} } evaluates e
   once, so Only({ F(v) : v \in {e} }) is F(e) with e computed once. *)
Only(S) == CHOOSE r \in S : TRUE

Abs(n) == IF n < 0 THEN -n ELSE n
Max(a, b) == IF a > b THEN a ELSE b
Min(a, b) == IF a < b THEN a ELSE b

(* the number NaN, a value apart from every number of the lattices; Math.max
   returns it whenever an argument is NaN, and every comparison with it is
   false *)
NaN == 0 - 2147483647
isNaN(value) == value = NaN
mathMax(a, b) == IF isNaN(a) \/ isNaN(b) THEN NaN ELSE Max(a, b)
atLeast(value, lo) == ~isNaN(value) /\ value >= lo

clamp(value, lo, hi) == Max(lo, Min(hi, value))

(* Numbers r + s*sqrt(2) *)
Surd(r, s) == [r |-> r, s |-> s]
SZero == Surd(0, 0)
SAdd(a, b) == Surd(a.r + b.r, a.s + b.s)
SMul(a, k) == Surd(a.r * k, a.s * k)
SDiv(a, k) == Surd(a.r \div k, a.s \div k)
SSquare(a) == Surd(a.r * a.r + 2 * a.s * a.s, 2 * a.r * a.s)

Vec(x, y, z) == [x |-> x, y |-> y, z |-> z]
VZero == Vec(SZero, 0, SZero)

----------------------------------------------------------------------------
(* Program constants *)

MIN_CROUCH_HEIGHT == 480
heightLerpSpeed == 10
MinDelta == 2
SnapDistanceInv == 1000

DEFAULT_PLAYER_CONFIG ==
    [height |-> 2560, moveSpeed |-> 400, jumpSpeed |-> 640, gravity |-> 80]
DEFAULT_LOOK_SENSITIVITY == 25
DEFAULT_MAX_PITCH == HalfPi - 100
DEFAULT_SPRINT_MULTIPLIER == 150
DEFAULT_CROUCH_HEIGHT_RATIO == 60
DEFAULT_CROUCH_SPEED_MULTIPLIER == 60
DEFAULT_KEY_BINDINGS ==
    [forward |-> {"KeyW", "ArrowUp"}, backward |-> {"KeyS", "ArrowDown"},
     left |-> {"KeyA", "ArrowLeft"}, right |-> {"KeyD", "ArrowRight"},
     jump |-> {"Space"}, sprint |-> {"ShiftLeft", "ShiftRight"}]

MovementActions == {"forward", "backward", "left", "right", "jump", "sprint"}

PositionId == 1
VelocityId == 2

position == heap[PositionId]
velocity == heap[VelocityId]

NoCalls ==
    [jump |-> 0, gravityFn |-> 0, groundCheckFn |-> 0, lockChange |-> 0,
     lockToggle |-> 0, hostRequest |-> 0, hostExit |-> 0, notified |-> << >>,
     gravityArgs |-> << >>, groundArgs |-> << >>, callbacks |-> << >>]

Op(name, arg) == [name |-> name, arg |-> arg]

----------------------------------------------------------------------------
(* Everything an operation can write, as one record w; the operations are
   functions on it, composed as the code calls them.  calls starts empty:
   it counts what the operation at hand invokes.                           *)

World ==
    [position |-> position, velocity |-> velocity, yaw |-> yaw, pitch |-> pitch,
     onGround |-> onGround, config |-> config, lookSensitivity |-> lookSensitivity,
     maxPitch |-> maxPitch, sprintMultiplier |-> sprintMultiplier,
     fieldOfView |-> fieldOfView, crouchEnabled |-> crouchEnabled,
     isCrouching |-> isCrouching, crouchHeight |-> crouchHeight,
     crouchSpeedMultiplier |-> crouchSpeedMultiplier, currentHeight |-> currentHeight,
     maxStepHeight |-> maxStepHeight, maxSlopeAngle |-> maxSlopeAngle,
     gravityFn |-> gravityFn, groundCheckFn |-> groundCheckFn,
     jumpCallback |-> jumpCallback,
     pointerLockChangeCallback |-> pointerLockChangeCallback,
     pointerLockToggleCallback |-> pointerLockToggleCallback,
     disposed |-> disposed, camera |-> camera,
     pressedKeys |-> pressedKeys, keyBindings |-> keyBindings, arrays |-> arrays,
     pointerLockActive |-> pointerLockActive, kbAttached |-> kbAttached,
     focused |-> focused,
     plSupported |-> plSupported, plEnabled |-> plEnabled, plAutoLock |-> plAutoLock,
     plAttached |-> plAttached, plLocked |-> plLocked,
     hostPending |-> hostPending, calls |-> NoCalls]

----------------------------------------------------------------------------
(* KeyboardControls *)

(* An array is an object: arrays.own[a] is the array the keyboard holds for
   action a, arrays.arg[a] the array a caller passed for a in its latest
   overrides; a binding is a reference << "own" or "arg", action >>.       *)
OwnArray(action) == << "own", action >>
ArgArray(action) == << "arg", action >>
codes(w, ref) == w.arrays[ref[1]][ref[2]]

isActionPressed(w, action) == codes(w, w.keyBindings[action]) \cap w.pressedKeys # {}

shouldHandleEvent(w) == w.pointerLockActive \/ w.focused

keyDown(w0, code) ==
    Only({ IF w.kbAttached /\ shouldHandleEvent(w)
           THEN [w EXCEPT !.pressedKeys = @ \cup {code}] ELSE w : w \in {w0} })

keyUp(w0, code) ==
    Only({ IF w.kbAttached /\ shouldHandleEvent(w)
           THEN [w EXCEPT !.pressedKeys = @ \ {code}] ELSE w : w \in {w0} })

(* the overrides object as the caller built it: one array per named action
   with a list *)
passed(w, overrides) ==
    [w EXCEPT !.arrays.arg =
        [a \in DOMAIN @ |-> IF Get(overrides, a) # None THEN Val(overrides[a]) ELSE @[a]]]

(* a variant of updateBindings() that keeps the caller's arrays *)
updateBindingsShared(w0, overrides) ==
    Only({ [w EXCEPT !.keyBindings =
                [a \in DOMAIN @ |-> IF Get(overrides, a) # None THEN ArgArray(a) ELSE @[a]]]
           : w \in {passed(w0, overrides)} })

(* cloneBindings() and [...codes] build new arrays; the keyboard's array of
   an action takes the place of the one it drops *)
updateBindings(w0, overrides) ==
    Only({ [w EXCEPT !.arrays.own =
                [a \in DOMAIN @ |-> IF Get(overrides, a) # None
                                    THEN codes(w, ArgArray(a))
                                    ELSE codes(w, w.keyBindings[a])],
                     !.keyBindings = [a \in DOMAIN @ |-> OwnArray(a)]]
           : w \in {passed(w0, overrides)} })

----------------------------------------------------------------------------
(* Injected strategies.  A strategy is named; "none" is no function.       *)

(* gravityFn(position): the acceleration, in units per tick^2 *)
GravityFnResult(fn, pos) ==
    CASE fn = "custom15" -> Vec(SZero, -60, SZero)
      [] fn = "lift" -> Vec(SZero, 40, SZero)
      [] fn = "wind" -> Vec(Surd(40, 0), -80, SZero)
      [] fn = "scribble" -> Vec(SZero, -60, SZero)
      [] fn = "planet" -> Vec(SZero, IF pos.y > 2 * UnitsPerMeter THEN -80 ELSE -40, SZero)

(* what gravityFn leaves in the vector it was given: "scribble" writes into it *)
GravityFnWrites(fn, pos) == IF fn = "scribble" THEN [pos EXCEPT !.y = 0] ELSE pos

(* groundCheckFn(state, delta): onGround and the angle of the ground normal
   from the up vector (None for a null normal) *)
GroundCheckFnResult(fn, snap, delta) ==
    CASE fn = "below2" ->
            [onGround |-> snap.position.y <= 2 * UnitsPerMeter, groundNormal |-> Some(0)]
      [] fn = "steep" ->
            [onGround |-> snap.position.y <= 2 * UnitsPerMeter,
             groundNormal |-> Some(HalfPi \div 2 + 1000)]
      [] fn = "never" -> [onGround |-> FALSE, groundNormal |-> None]
      [] fn = "always" -> [onGround |-> TRUE, groundNormal |-> None]
      [] fn = "scribble" ->
            [onGround |-> snap.position.y <= 2 * UnitsPerMeter, groundNormal |-> None]

(* what groundCheckFn leaves in the snapshot it was given *)
GroundCheckFnWrites(fn, snap) ==
    IF fn = "scribble"
    THEN [snap EXCEPT !.position.y = 0, !.velocity.y = 0, !.onGround = TRUE] ELSE snap

----------------------------------------------------------------------------
(* FirstPersonController: the steps of update() *)

lerp(x, y, num, den) == x + ((y - x) * num) \div den

SinYaw(a) ==
    CASE a % HalfPi = 0 /\ (a \div HalfPi) % 4 \in {0, 2} -> 0
      [] a % HalfPi = 0 /\ (a \div HalfPi) % 4 = 1 -> 1
      [] a % HalfPi = 0 /\ (a \div HalfPi) % 4 = 3 -> -1

CosYaw(a) ==
    CASE a % HalfPi = 0 /\ (a \div HalfPi) % 4 \in {1, 3} -> 0
      [] a % HalfPi = 0 /\ (a \div HalfPi) % 4 = 0 -> 1
      [] a % HalfPi = 0 /\ (a \div HalfPi) % 4 = 2 -> -1

(* (0,0,-1) and (1,0,0) turned about the up axis by yaw: [x, z] *)
forwardVector(a) == [x |-> 0 - SinYaw(a), z |-> 0 - CosYaw(a)]
rightVector(a) == [x |-> CosYaw(a), z |-> 0 - SinYaw(a)]

B2N(b) == IF b THEN 1 ELSE 0

moveDirection(w) ==
    LET f == B2N(isActionPressed(w, "forward")) - B2N(isActionPressed(w, "backward"))
        r == B2N(isActionPressed(w, "right")) - B2N(isActionPressed(w, "left"))
    IN  [x |-> f * forwardVector(w.yaw).x + r * rightVector(w.yaw).x,
         z |-> f * forwardVector(w.yaw).z + r * rightVector(w.yaw).z]

lengthSq(d) == d.x * d.x + d.z * d.z

(* The unit vector along d, its components in halves: 1 is 2/2 and
   1/sqrt(2) is sqrt(2)/2. *)
(* a variant of the direction that is not normalised *)
normalizeSkipped(d) == [x |-> Surd(2 * d.x, 0), z |-> Surd(2 * d.z, 0)]

normalize(d) ==
    IF lengthSq(d) = 1
    THEN [x |-> Surd(2 * d.x, 0), z |-> Surd(2 * d.z, 0)]
    ELSE [x |-> Surd(0, d.x), z |-> Surd(0, d.z)]

multiplyScalar(n, m) == [x |-> SDiv(SMul(n.x, m), 2), z |-> SDiv(SMul(n.z, m), 2)]

getMoveSpeed(w) ==
    LET s0 == w.config.moveSpeed
        s1 == IF isActionPressed(w, "sprint")
              THEN (s0 * w.sprintMultiplier) \div Hundred ELSE s0
    IN  IF w.crouchEnabled /\ w.isCrouching
        THEN (s1 * w.crouchSpeedMultiplier) \div Hundred ELSE s1

targetHeight(w) == IF w.isCrouching /\ w.crouchEnabled THEN w.crouchHeight ELSE w.config.height

(* a variant of the height blend without the snap to the target *)
blendedHeightNoSnap(w, delta) ==
    lerp(w.currentHeight, targetHeight(w),
         Min(TicksPerSecond, Ticks(delta) * heightLerpSpeed), TicksPerSecond)

blendedHeight(w, delta) ==
    LET l == lerp(w.currentHeight, targetHeight(w),
                  Min(TicksPerSecond, Ticks(delta) * heightLerpSpeed), TicksPerSecond)
    IN  IF Abs(l - targetHeight(w)) * SnapDistanceInv < UnitsPerMeter
        THEN targetHeight(w) ELSE l

updateHeight(w0, delta) ==
    Only({ [w EXCEPT !.currentHeight = blendedHeight(w, delta),
                     !.position.y = IF w.onGround THEN blendedHeight(w, delta) ELSE @]
           : w \in {w0} })

(* a variant of the displacement that is the same for every frame length *)
tempDisplacementPerFrame(w, delta) ==
    multiplyScalar(normalize(moveDirection(w)), getMoveSpeed(w))

tempDisplacement(w, delta) ==
    multiplyScalar(normalize(moveDirection(w)), getMoveSpeed(w) * Ticks(delta))

moveStep(w0, delta) ==
    Only({ IF lengthSq(moveDirection(w)) > 0
           THEN [w EXCEPT !.position.x = SAdd(@, tempDisplacement(w, delta).x),
                          !.position.z = SAdd(@, tempDisplacement(w, delta).z),
                          !.velocity.x = SDiv(tempDisplacement(w, delta).x, Ticks(delta)),
                          !.velocity.z = SDiv(tempDisplacement(w, delta).z, Ticks(delta))]
           ELSE [w EXCEPT !.velocity.x = SZero, !.velocity.z = SZero]
           : w \in {w0} })

(* variants of the jump step: one that jumps in mid-air, one that gives no
   impulse *)
jumpStepAirborne(w0) ==
    Only({ IF isActionPressed(w, "jump")
           THEN [w EXCEPT !.velocity.y = w.config.jumpSpeed,
                          !.onGround = FALSE,
                          !.calls.jump = @ + B2N(w.jumpCallback)]
           ELSE w
           : w \in {w0} })

jumpStepNoImpulse(w0) ==
    Only({ IF isActionPressed(w, "jump") /\ w.onGround
           THEN [w EXCEPT !.onGround = FALSE, !.calls.jump = @ + B2N(w.jumpCallback)]
           ELSE w
           : w \in {w0} })

jumpStep(w0) ==
    Only({ IF isActionPressed(w, "jump") /\ w.onGround
           THEN [w EXCEPT !.velocity.y = w.config.jumpSpeed,
                          !.onGround = FALSE,
                          !.calls.jump = @ + B2N(w.jumpCallback)]
           ELSE w
           : w \in {w0} })

updateMovement(w, delta) == jumpStep(moveStep(w, delta))

gravityOf(w) ==
    IF w.gravityFn # "none"
    THEN GravityFnResult(w.gravityFn, w.position)
    ELSE Vec(SZero, 0 - w.config.gravity, SZero)

addScaledVector(v, g, k) ==
    Vec(SAdd(v.x, SMul(g.x, k)), v.y + g.y * k, SAdd(v.z, SMul(g.z, k)))

(* a variant of applyGravity() that hands gravityFn the position itself *)
applyGravityShared(w0, delta) ==
    Only({ IF delta <= 0 THEN w
           ELSE [w EXCEPT !.velocity = addScaledVector(@, gravityOf(w), Ticks(delta)),
                          !.position.y = GravityFnWrites(w.gravityFn, w.position).y
                                         + (w.velocity.y + gravityOf(w).y * Ticks(delta))
                                           * Ticks(delta),
                          !.calls.gravityFn = @ + B2N(w.gravityFn # "none"),
                          !.calls.gravityArgs = IF w.gravityFn # "none"
                                                THEN Append(@, w.position) ELSE @]
           : w \in {w0} })

(* a variant of applyGravity() that moves the rig by the velocity it had
   before the acceleration was added *)
applyGravityExplicit(w0, delta) ==
    Only({ IF delta <= 0 THEN w
           ELSE [w EXCEPT !.velocity = addScaledVector(@, gravityOf(w), Ticks(delta)),
                          !.position.y = @ + w.velocity.y * Ticks(delta),
                          !.calls.gravityFn = @ + B2N(w.gravityFn # "none"),
                          !.calls.gravityArgs = IF w.gravityFn # "none"
                                                THEN Append(@, w.position) ELSE @]
           : w \in {w0} })

(* gravityFn gets position.clone(): what it writes there is dropped *)
applyGravity(w0, delta) ==
    Only({ IF delta <= 0 THEN w
           ELSE [w EXCEPT !.velocity = addScaledVector(@, gravityOf(w), Ticks(delta)),
                          !.position.y = @ + (w.velocity.y + gravityOf(w).y * Ticks(delta))
                                             * Ticks(delta),
                          !.calls.gravityFn = @ + B2N(w.gravityFn # "none"),
                          !.calls.gravityArgs = IF w.gravityFn # "none"
                                                THEN Append(@, w.position) ELSE @]
           : w \in {w0} })

getState(w) == [position |-> w.position, velocity |-> w.velocity,
                yaw |-> w.yaw, pitch |-> w.pitch, onGround |-> w.onGround]

(* groundCheckFn gets getState(), made of clones, and delta *)
groundCheckArgs(w, delta) ==
    IF w.groundCheckFn # "none"
    THEN Append(w.calls.groundArgs, [state |-> getState(w), delta |-> delta])
    ELSE w.calls.groundArgs

runGroundCheck(w, delta) ==
    IF w.groundCheckFn # "none"
    THEN GroundCheckFnResult(w.groundCheckFn, getState(w), delta)
    ELSE [onGround |-> w.position.y <= w.currentHeight,
          groundNormal |-> IF w.position.y <= w.currentHeight THEN Some(0) ELSE None]

(* the ground check's answer after the slope limit *)
walkable(w, result) ==
    /\ result.onGround
    /\ ~(w.maxSlopeAngle # None /\ result.groundNormal # None
         /\ Val(result.groundNormal) > Val(w.maxSlopeAngle))

(* a variant of the step test that lets every step pass *)
withinStepUnlimited(w) == TRUE

withinStep(w) ==
    ~(w.maxStepHeight # None /\ Abs(w.currentHeight - w.position.y) > Val(w.maxStepHeight))

(* a variant of resolveGround() that does not put the rig on the ground it
   found *)
resolveGroundNoSnap(w0, delta) ==
    Only({ IF walkable(w, runGroundCheck(w, delta)) /\ withinStep(w)
           THEN [w EXCEPT !.velocity.y = IF @ < 0 THEN 0 ELSE @,
                          !.onGround = TRUE,
                          !.calls.groundCheckFn = @ + B2N(w.groundCheckFn # "none"),
                          !.calls.groundArgs = groundCheckArgs(w, delta)]
           ELSE [w EXCEPT !.onGround = FALSE,
                          !.calls.groundCheckFn = @ + B2N(w.groundCheckFn # "none"),
                          !.calls.groundArgs = groundCheckArgs(w, delta)]
           : w \in {w0} })

(* a variant of resolveGround() that stops every vertical motion on the
   ground *)
resolveGroundStopped(w0, delta) ==
    Only({ IF walkable(w, runGroundCheck(w, delta)) /\ withinStep(w)
           THEN [w EXCEPT !.position.y = w.currentHeight,
                          !.velocity.y = 0,
                          !.onGround = TRUE,
                          !.calls.groundCheckFn = @ + B2N(w.groundCheckFn # "none"),
                          !.calls.groundArgs = groundCheckArgs(w, delta)]
           ELSE [w EXCEPT !.onGround = FALSE,
                          !.calls.groundCheckFn = @ + B2N(w.groundCheckFn # "none"),
                          !.calls.groundArgs = groundCheckArgs(w, delta)]
           : w \in {w0} })

resolveGround(w0, delta) ==
    Only({ IF walkable(w, runGroundCheck(w, delta)) /\ withinStep(w)
           THEN [w EXCEPT !.position.y = w.currentHeight,
                          !.velocity.y = IF @ < 0 THEN 0 ELSE @,
                          !.onGround = TRUE,
                          !.calls.groundCheckFn = @ + B2N(w.groundCheckFn # "none"),
                          !.calls.groundArgs = groundCheckArgs(w, delta)]
           ELSE [w EXCEPT !.onGround = FALSE,
                          !.calls.groundCheckFn = @ + B2N(w.groundCheckFn # "none"),
                          !.calls.groundArgs = groundCheckArgs(w, delta)]
           : w \in {w0} })

QuaternionFromEuler(x, y, z) == [x |-> x, y |-> y, z |-> z, order |-> "YXZ"]

(* a variant of applyToCamera() that forgets the pitch *)
cameraOfNoPitch(w) ==
    [position |-> w.position, quaternion |-> QuaternionFromEuler(0, w.yaw, 0),
     fov |-> w.fieldOfView]

(* applyToCamera(camera): what the camera holds afterwards *)
cameraOf(w) ==
    [position |-> w.position, quaternion |-> QuaternionFromEuler(w.pitch, w.yaw, 0),
     fov |-> w.fieldOfView]

syncCamera(w0) == Only({ [w EXCEPT !.camera = cameraOf(w)] : w \in {w0} })

(* a variant of the guard of update() without the delta floor *)
IsNoOpDisposedOnly(w, deltaSeconds) == w.disposed

IsNoOp(w, deltaSeconds) == w.disposed \/ Max(0, deltaSeconds) < MinDelta

updateSteps(w, delta) ==
    syncCamera(resolveGround(applyGravity(updateMovement(updateHeight(w, delta), delta),
                                          delta), delta))

update(w0, deltaSeconds) ==
    Only({ IF IsNoOp(w, deltaSeconds) THEN w ELSE updateSteps(w, Max(0, deltaSeconds))
           : w \in {w0} })

----------------------------------------------------------------------------
(* PointerLockManager, and the controller's handler it notifies *)

(* the callbacks handlePointerLockChange() invokes, in order *)
Invoked(w, locked) ==
    (IF w.pointerLockChangeCallback THEN << << "change", locked >> >> ELSE << >>)
    \o (IF w.pointerLockToggleCallback THEN << << "toggle", locked >> >> ELSE << >>)

(* a variant of handlePointerLockChange() that leaves the pressed keys *)
handlePointerLockChangeKeysKept(w0, locked) ==
    Only({ [w EXCEPT !.pointerLockActive = locked,
                     !.calls.lockChange = @ + B2N(w.pointerLockChangeCallback),
                     !.calls.lockToggle = @ + B2N(w.pointerLockToggleCallback),
                     !.calls.notified = Append(@, locked),
                     !.calls.callbacks = @ \o Invoked(w, locked)]
           : w \in {w0} })

handlePointerLockChange(w0, locked) ==
    Only({ [w EXCEPT !.pressedKeys = IF locked THEN @ ELSE {},
                     !.pointerLockActive = locked,
                     !.calls.lockChange = @ + B2N(w.pointerLockChangeCallback),
                     !.calls.lockToggle = @ + B2N(w.pointerLockToggleCallback),
                     !.calls.notified = Append(@, locked),
                     !.calls.callbacks = @ \o Invoked(w, locked)]
           : w \in {w0} })

notify(w, locked) == handlePointerLockChange(w, locked)

isLocked(w) == w.plSupported /\ w.plLocked

(* a variant of requestLock() that asks the host whenever it can *)
requestLockWhenDisabled(w0) ==
    Only({ IF ~w.plSupported THEN w
           ELSE [w EXCEPT !.hostPending = @ \cup {"request"}, !.calls.hostRequest = @ + 1]
           : w \in {w0} })

requestLock(w0) ==
    Only({ IF ~w.plSupported \/ ~w.plEnabled THEN w
           ELSE [w EXCEPT !.hostPending = @ \cup {"request"}, !.calls.hostRequest = @ + 1]
           : w \in {w0} })

exitLock(w0) ==
    Only({ IF ~w.plSupported \/ ~w.plLocked THEN notify(w, FALSE)
           ELSE [w EXCEPT !.hostPending = @ \cup {"exit"}, !.calls.hostExit = @ + 1]
           : w \in {w0} })

(* a variant of setEnabled() without the support check *)
setEnabledUnsupported(w0, enabled) ==
    Only({ IF enabled THEN [w EXCEPT !.plEnabled = TRUE]
           ELSE exitLock([w EXCEPT !.plEnabled = FALSE])
           : w \in {w0} })

setEnabled(w0, enabled) ==
    Only({ IF ~w.plSupported THEN [w EXCEPT !.plEnabled = FALSE]
           ELSE IF enabled THEN [w EXCEPT !.plEnabled = TRUE]
           ELSE exitLock([w EXCEPT !.plEnabled = FALSE])
           : w \in {w0} })

setAutoLock(w, autoLock) == [w EXCEPT !.plAutoLock = autoLock]

plAttach(w0) ==
    Only({ IF ~w.plSupported \/ w.plAttached THEN w ELSE [w EXCEPT !.plAttached = TRUE]
           : w \in {w0} })

plDispose(w) == [exitLock(w) EXCEPT !.plAttached = FALSE]

(* the document's pointerlockchange event *)
pointerLockChangeHandler(w0) ==
    Only({ IF w.plAttached THEN notify(w, isLocked(w)) ELSE w : w \in {w0} })

(* the capturing keydown listener: Escape leaves the lock *)
keydownHandler(w0, code) ==
    Only({ IF w.plAttached /\ code = "Escape" /\ isLocked(w) THEN exitLock(w) ELSE w
           : w \in {w0} })

----------------------------------------------------------------------------
(* FirstPersonController: the setters *)

computeCrouchHeight(w, value) ==
    clamp(IF value # None THEN Val(value)
          ELSE (w.config.height * DEFAULT_CROUCH_HEIGHT_RATIO) \div Hundred,
          MIN_CROUCH_HEIGHT, w.config.height)

(* { ...this.config, ...config } *)
mergeConfig(old, cfg) == [k \in DOMAIN old |-> IF Has(cfg, k) THEN cfg[k] ELSE old[k]]

(* a variant of the first step of setMovementConfig() that keeps crouchHeight *)
setMovementConfig1Kept(w0) == w0

setMovementConfig1(w0) ==
    Only({ [w EXCEPT !.crouchHeight = computeCrouchHeight(w, Some(w.crouchHeight))]
           : w \in {w0} })

setMovementConfig2(w0) ==
    Only({ [w EXCEPT !.currentHeight = targetHeight(w)] : w \in {w0} })

(* a variant of the last step of setMovementConfig() that leaves the position *)
setMovementConfig3Kept(w0) == w0

setMovementConfig3(w0) ==
    Only({ [w EXCEPT !.position.y = IF @ < w.currentHeight THEN w.currentHeight ELSE @]
           : w \in {w0} })

setMovementConfig(w, cfg) ==
    setMovementConfig3(setMovementConfig2(setMovementConfig1(
        [w EXCEPT !.config = mergeConfig(@, cfg)])))

setLookSensitivity(w, value) == [w EXCEPT !.lookSensitivity = mathMax(1, value)]

clampMaxPitch(value) == Max(1000, Min(HalfPi - 100, value))

(* a variant of setMaxPitch() that leaves the pitch as it is *)
setMaxPitchNoReclamp(w, value) == [w EXCEPT !.maxPitch = clampMaxPitch(value)]

setMaxPitch(w, value) ==
    [w EXCEPT !.maxPitch = clampMaxPitch(value),
              !.pitch = clamp(@, 0 - clampMaxPitch(value), clampMaxPitch(value))]

setSprintMultiplier(w, multiplier) ==
    [w EXCEPT !.sprintMultiplier = mathMax(Hundred, multiplier)]

setPointerLockEnabled(w, enabled) ==
    Only({ [v EXCEPT !.pointerLockActive = IF enabled THEN isLocked(v) ELSE FALSE]
           : v \in {setEnabled(w, enabled)} })

setAutoPointerLock(w, enabled) == setAutoLock(w, enabled)

setKeyBindings(w, bindings) == updateBindings(w, bindings)

setPointerLockChangeCallback(w, callback) == [w EXCEPT !.pointerLockChangeCallback = callback]

setJumpCallback(w, callback) == [w EXCEPT !.jumpCallback = callback]

(* a variant of setFieldOfView() that leaves the camera as it is *)
setFieldOfViewStored(w, value) == [w EXCEPT !.fieldOfView = Max(10, Min(150, value))]

setFieldOfView(w, value) == syncCamera([w EXCEPT !.fieldOfView = Max(10, Min(150, value))])

(* a variant of enableCrouch() that leaves the crouching flag *)
enableCrouchFlagKept(w, enabled) == [w EXCEPT !.crouchEnabled = enabled]

enableCrouch(w, enabled) ==
    [w EXCEPT !.crouchEnabled = enabled, !.isCrouching = IF enabled THEN @ ELSE FALSE]

setCrouch(w0, enabled) ==
    Only({ IF ~w.crouchEnabled THEN w ELSE [w EXCEPT !.isCrouching = enabled] : w \in {w0} })

----------------------------------------------------------------------------
(* FirstPersonController: options.  An options object is a record holding
   the keys that are present; a present number is Some(n) and a present
   undefined is None; a function-valued option is TRUE for a function and
   FALSE for undefined, or the name of a strategy ("none" for undefined).  *)

degToRad(tenths) == (tenths * HalfPi) \div 900

MovementKeys == {"height", "moveSpeed", "jumpSpeed", "gravity"}

movementUpdates(options) ==
    [k \in { m \in MovementKeys : Get(options, m) # None } |-> Val(options[k])]

stepLimit(value) == IF value # None THEN Some(Max(0, Val(value))) ELSE None

slopeLimit(value) ==
    IF value # None THEN Some(degToRad(Max(0, Min(899, Val(value))))) ELSE None

FnOrNone(options, key) == IF Has(options, key) THEN options[key] ELSE "none"
CallbackOrNone(options, key) == IF Has(options, key) THEN options[key] ELSE FALSE

applyMovement(w, options) ==
    IF DOMAIN movementUpdates(options) # {}
    THEN setMovementConfig(w, movementUpdates(options)) ELSE w

applyLook(w0, options) ==
    Only({ IF Get(options, "maxPitch") # None
           THEN setMaxPitch(v, Val(options.maxPitch)) ELSE v
           : v \in { IF Get(options, "lookSensitivity") # None
                     THEN setLookSensitivity(w0, Val(options.lookSensitivity)) ELSE w0 } })

applySprint(w, options) ==
    IF Get(options, "sprintMultiplier") # None
    THEN setSprintMultiplier(w, Val(options.sprintMultiplier)) ELSE w

applyPointerLock(w0, options) ==
    Only({ IF Get(options, "autoPointerLock") # None
           THEN setAutoPointerLock(v, Val(options.autoPointerLock)) ELSE v
           : v \in { IF Get(options, "enablePointerLock") # None
                     THEN setPointerLockEnabled(w0, Val(options.enablePointerLock))
                     ELSE w0 } })

applyBindings(w, options) ==
    IF Get(options, "keyBindings") # None
    THEN setKeyBindings(w, Val(options.keyBindings)) ELSE w

applyFieldOfView(w, options) ==
    IF Get(options, "fieldOfView") # None
    THEN setFieldOfView(w, Val(options.fieldOfView)) ELSE w

applyStrategies(w, options) ==
    [w EXCEPT !.gravityFn = IF Has(options, "gravityFn") THEN options.gravityFn ELSE @,
              !.groundCheckFn = IF Has(options, "groundCheckFn")
                                THEN options.groundCheckFn ELSE @]

applyCrouch(w0, options) ==
    Only({ [v EXCEPT !.crouchHeight =
                        IF Get(options, "crouchHeight") # None
                        THEN computeCrouchHeight(v, options.crouchHeight)
                        ELSE computeCrouchHeight(v, Some(v.crouchHeight)),
                     !.crouchSpeedMultiplier =
                        IF Get(options, "crouchSpeedMultiplier") # None
                        THEN Max(1, Val(options.crouchSpeedMultiplier)) ELSE @]
           : v \in { IF Has(options, "enableCrouch")
                     THEN enableCrouch(w0, options.enableCrouch # None
                                           /\ Val(options.enableCrouch))
                     ELSE w0 } })

applyLimits(w, options) ==
    [w EXCEPT !.maxStepHeight =
                 IF Has(options, "maxStepHeight") THEN stepLimit(options.maxStepHeight) ELSE @,
              !.maxSlopeAngle =
                 IF Has(options, "maxSlopeAngle") THEN slopeLimit(options.maxSlopeAngle) ELSE @]

applyCallbacks(w, options) ==
    [w EXCEPT !.pointerLockToggleCallback =
                 IF Has(options, "onPointerLockToggle") THEN options.onPointerLockToggle ELSE @,
              !.pointerLockChangeCallback =
                 IF Has(options, "onPointerLockChange") THEN options.onPointerLockChange ELSE @,
              !.jumpCallback = IF Has(options, "onJump") THEN options.onJump ELSE @]

applyOptions(w, options) ==
    applyCallbacks(applyLimits(applyCrouch(applyStrategies(applyFieldOfView(applyBindings(
        applyPointerLock(applySprint(applyLook(applyMovement(w, options), options),
                                     options), options), options), options), options),
        options), options), options)

----------------------------------------------------------------------------
(* FirstPersonController: construction *)

NewCamera(fov) == [position |-> VZero, quaternion |-> QuaternionFromEuler(0, 0, 0), fov |-> fov]

CameraFov == 75
OtherCameraFov == CameraFov - 25

(* the fields as the constructor assigns them, before applyOptions *)
fieldsOf(options, supported, hasFocus) ==
    [position |-> VZero, velocity |-> VZero, yaw |-> 0, pitch |-> 0, onGround |-> FALSE,
     config |-> DEFAULT_PLAYER_CONFIG,
     lookSensitivity |-> DEFAULT_LOOK_SENSITIVITY,
     maxPitch |-> DEFAULT_MAX_PITCH,
     sprintMultiplier |-> DEFAULT_SPRINT_MULTIPLIER,
     fieldOfView |-> IF Get(options, "fieldOfView") # None
                     THEN Val(options.fieldOfView) ELSE CameraFov,
     crouchEnabled |-> Get(options, "enableCrouch") # None /\ Val(options.enableCrouch),
     isCrouching |-> FALSE,
     crouchHeight |-> clamp(IF Get(options, "crouchHeight") # None
                            THEN Val(options.crouchHeight)
                            ELSE (DEFAULT_PLAYER_CONFIG.height * DEFAULT_CROUCH_HEIGHT_RATIO)
                                 \div Hundred,
                            MIN_CROUCH_HEIGHT, DEFAULT_PLAYER_CONFIG.height),
     crouchSpeedMultiplier |-> IF Get(options, "crouchSpeedMultiplier") # None
                               THEN Val(options.crouchSpeedMultiplier)
                               ELSE DEFAULT_CROUCH_SPEED_MULTIPLIER,
     currentHeight |-> DEFAULT_PLAYER_CONFIG.height,
     maxStepHeight |-> stepLimit(Get(options, "maxStepHeight")),
     maxSlopeAngle |-> slopeLimit(Get(options, "maxSlopeAngle")),
     gravityFn |-> FnOrNone(options, "gravityFn"),
     groundCheckFn |-> FnOrNone(options, "groundCheckFn"),
     jumpCallback |-> CallbackOrNone(options, "onJump"),
     pointerLockChangeCallback |-> CallbackOrNone(options, "onPointerLockChange"),
     pointerLockToggleCallback |-> CallbackOrNone(options, "onPointerLockToggle"),
     disposed |-> FALSE, camera |-> NewCamera(CameraFov),
     pressedKeys |-> {}, keyBindings |-> [a \in MovementActions |-> OwnArray(a)],
     arrays |-> [own |-> DEFAULT_KEY_BINDINGS, arg |-> [a \in MovementActions |-> {}]],
     pointerLockActive |-> FALSE, kbAttached |-> FALSE, focused |-> hasFocus,
     plSupported |-> supported,
     plEnabled |-> supported /\ (Get(options, "enablePointerLock") = None
                                 \/ Val(options.enablePointerLock)),
     plAutoLock |-> Get(options, "autoPointerLock") = None \/ Val(options.autoPointerLock),
     plAttached |-> FALSE, plLocked |-> FALSE,
     hostPending |-> {}, calls |-> NoCalls]

(* options.initialPosition?.clone() ?? new Vector3(0, this.config.height, -5),
   evaluated before applyOptions *)
initialPositionOf(options) ==
    IF Has(options, "initialPosition") THEN options.initialPosition
    ELSE Vec(SZero, DEFAULT_PLAYER_CONFIG.height, Surd(0 - 5 * UnitsPerMeter, 0))

initializeCamera(w0, initialPosition) ==
    Only({ syncCamera([w EXCEPT !.position = initialPosition, !.velocity = VZero,
                                !.yaw = 0, !.pitch = 0, !.onGround = TRUE,
                                !.currentHeight = w.config.height])
           : w \in {w0} })

initializeListeners(w) == plAttach([w EXCEPT !.kbAttached = TRUE])

constructed(options, supported, hasFocus) ==
    initializeListeners(initializeCamera(
        applyOptions(fieldsOf(options, supported, hasFocus), options),
        initialPositionOf(options)))

----------------------------------------------------------------------------
(* FirstPersonController: event handlers and disposal *)

onClickHandler(w0) ==
    Only({ IF w.disposed \/ ~w.plSupported \/ ~w.plEnabled \/ ~w.plAutoLock THEN w
           ELSE requestLock([w EXCEPT !.focused = TRUE])
           : w \in {w0} })

(* whether a mousemove event is acted on; onElement: the event's target is
   the controller's element or inside it *)
(* a variant of the mousemove test that only looks at disposal *)
honouredAnywhere(w, onElement) == ~w.disposed

honoured(w, onElement) ==
    /\ ~w.disposed
    /\ IF w.plEnabled THEN ~(w.plSupported /\ ~isLocked(w)) ELSE onElement

onMouseMoveHandler(w0, movementX, movementY, onElement) ==
    Only({ IF ~honoured(w, onElement) THEN w
           ELSE syncCamera([w EXCEPT
                    !.yaw = @ - movementX * w.lookSensitivity,
                    !.pitch = clamp(@ - movementY * w.lookSensitivity,
                                    0 - w.maxPitch, w.maxPitch)])
           : w \in {w0} })

kbDispose(w) == [w EXCEPT !.kbAttached = FALSE, !.pressedKeys = {}]

(* a variant of dispose() without the disposed guard *)
disposeAgain(w0) ==
    Only({ plDispose(kbDispose([w EXCEPT !.disposed = TRUE])) : w \in {w0} })

dispose(w0) ==
    Only({ IF w.disposed THEN w ELSE plDispose(kbDispose([w EXCEPT !.disposed = TRUE]))
           : w \in {w0} })

requestPointerLock(w0) ==
    Only({ IF w.disposed THEN w ELSE requestLock(w) : w \in {w0} })

(* a variant of exitPointerLock() without the disposed guard *)
exitPointerLockUnguarded(w0) == exitLock(w0)

exitPointerLock(w0) ==
    Only({ IF w.disposed THEN w ELSE exitLock(w) : w \in {w0} })

(* a variant of clone() that hands out the object itself *)
cloneAlias(h, id) == [heap |-> h, id |-> id]

(* getState(): the vectors are cloned into new objects of the heap h *)
clone(h, id) == [heap |-> Append(h, h[id]), id |-> Len(h) + 1]

stateSnapshot(h0) ==
    Only({ Only({ [heap |-> v.heap,
                   snapshot |-> [position |-> p.id, velocity |-> v.id, yaw |-> yaw,
                                 pitch |-> pitch, onGround |-> onGround]]
                  : v \in {clone(p.heap, VelocityId)} })
           : p \in {clone(h0, PositionId)} })

----------------------------------------------------------------------------
(* LookController *)

(* a variant of LookController.applyToCamera() that always copies the
   position *)
lookAppliedWithPosition(l, cam, target, includePosition) ==
    [position |-> cam.position,
     quaternion |-> QuaternionFromEuler(l.pitch, l.yaw, 0),
     fov |-> l.fieldOfView]

(* a variant of LookController.applyToCamera() that rebuilds the whole
   transform, position included, from the angles *)
lookAppliedFromOrigin(l, cam, target, includePosition) ==
    [position |-> VZero,
     quaternion |-> QuaternionFromEuler(l.pitch, l.yaw, 0),
     fov |-> l.fieldOfView]

lookApplied(l, cam, target, includePosition) ==
    [position |-> IF includePosition THEN cam.position ELSE target.position,
     quaternion |-> QuaternionFromEuler(l.pitch, l.yaw, 0),
     fov |-> l.fieldOfView]

lookConstructed(options, cam) ==
    [yaw |-> cam.quaternion.y,
     pitch |-> clamp(cam.quaternion.x,
                     0 - (IF Get(options, "maxPitch") # None THEN Val(options.maxPitch)
                          ELSE DEFAULT_MAX_PITCH),
                     IF Get(options, "maxPitch") # None THEN Val(options.maxPitch)
                     ELSE DEFAULT_MAX_PITCH),
     maxPitch |-> IF Get(options, "maxPitch") # None THEN Val(options.maxPitch)
                  ELSE DEFAULT_MAX_PITCH,
     lookSensitivity |-> IF Get(options, "lookSensitivity") # None
                         THEN Val(options.lookSensitivity) ELSE DEFAULT_LOOK_SENSITIVITY,
     fieldOfView |-> IF Get(options, "fieldOfView") # None
                     THEN Val(options.fieldOfView) ELSE cam.fov,
     disposed |-> FALSE]

lookSetLookAngles(l, yawValue, pitchValue) ==
    [l EXCEPT !.yaw = yawValue,
              !.pitch = clamp(IF pitchValue # None THEN Val(pitchValue) ELSE @,
                              0 - l.maxPitch, l.maxPitch)]

lookSetMaxPitch(l, value) ==
    [l EXCEPT !.maxPitch = clampMaxPitch(value),
              !.pitch = clamp(@, 0 - clampMaxPitch(value), clampMaxPitch(value))]

lookSetFieldOfView(l, value) == [l EXCEPT !.fieldOfView = Max(10, Min(150, value))]

lookMouseMove(l, movementX, movementY) ==
    IF l.disposed THEN l
    ELSE [l EXCEPT !.yaw = @ - movementX * l.lookSensitivity,
                   !.pitch = clamp(@ - movementY * l.lookSensitivity,
                                   0 - l.maxPitch, l.maxPitch)]

----------------------------------------------------------------------------
(* The state machine *)

(* the state after new FirstPersonController(camera, element, options), next
   to a LookController built over its own camera *)
Construct(options, supported, hasFocus, lookOptions, lookCam) ==
    \E w \in {constructed(options, supported, hasFocus)} :
        /\ heap = << w.position, w.velocity >>
        /\ yaw = w.yaw /\ pitch = w.pitch /\ onGround = w.onGround
        /\ config = w.config
        /\ lookSensitivity = w.lookSensitivity /\ maxPitch = w.maxPitch
        /\ sprintMultiplier = w.sprintMultiplier /\ fieldOfView = w.fieldOfView
        /\ crouchEnabled = w.crouchEnabled /\ isCrouching = w.isCrouching
        /\ crouchHeight = w.crouchHeight
        /\ crouchSpeedMultiplier = w.crouchSpeedMultiplier
        /\ currentHeight = w.currentHeight
        /\ maxStepHeight = w.maxStepHeight /\ maxSlopeAngle = w.maxSlopeAngle
        /\ gravityFn = w.gravityFn /\ groundCheckFn = w.groundCheckFn
        /\ jumpCallback = w.jumpCallback
        /\ pointerLockChangeCallback = w.pointerLockChangeCallback
        /\ pointerLockToggleCallback = w.pointerLockToggleCallback
        /\ disposed = w.disposed /\ camera = w.camera
        /\ pressedKeys = w.pressedKeys /\ keyBindings = w.keyBindings
        /\ arrays = w.arrays
        /\ pointerLockActive = w.pointerLockActive /\ kbAttached = w.kbAttached
        /\ focused = w.focused
        /\ plSupported = w.plSupported /\ plEnabled = w.plEnabled
        /\ plAutoLock = w.plAutoLock /\ plAttached = w.plAttached
        /\ plLocked = w.plLocked /\ hostPending = w.hostPending
        /\ calls = w.calls
        /\ otherCamera = NewCamera(OtherCameraFov)
        /\ snapshots = << >>
        /\ look = lookConstructed(lookOptions, lookCam)
        /\ lookCamera = lookApplied(lookConstructed(lookOptions, lookCam),
                                    lookCam, lookCam, FALSE)
        /\ fixedDelta = None
        /\ op = Op("constructor", None)

(* an operation of the controller took the fields to w *)
Commit(w0, name, arg) ==
    \E w \in {w0} :
        /\ heap' = [heap EXCEPT ![PositionId] = w.position, ![VelocityId] = w.velocity]
        /\ yaw' = w.yaw /\ pitch' = w.pitch /\ onGround' = w.onGround
        /\ config' = w.config
        /\ lookSensitivity' = w.lookSensitivity /\ maxPitch' = w.maxPitch
        /\ sprintMultiplier' = w.sprintMultiplier /\ fieldOfView' = w.fieldOfView
        /\ crouchEnabled' = w.crouchEnabled /\ isCrouching' = w.isCrouching
        /\ crouchHeight' = w.crouchHeight
        /\ crouchSpeedMultiplier' = w.crouchSpeedMultiplier
        /\ currentHeight' = w.currentHeight
        /\ maxStepHeight' = w.maxStepHeight /\ maxSlopeAngle' = w.maxSlopeAngle
        /\ gravityFn' = w.gravityFn /\ groundCheckFn' = w.groundCheckFn
        /\ jumpCallback' = w.jumpCallback
        /\ pointerLockChangeCallback' = w.pointerLockChangeCallback
        /\ pointerLockToggleCallback' = w.pointerLockToggleCallback
        /\ disposed' = w.disposed /\ camera' = w.camera
        /\ pressedKeys' = w.pressedKeys /\ keyBindings' = w.keyBindings
        /\ arrays' = w.arrays
        /\ pointerLockActive' = w.pointerLockActive /\ kbAttached' = w.kbAttached
        /\ focused' = w.focused
        /\ plSupported' = w.plSupported /\ plEnabled' = w.plEnabled
        /\ plAutoLock' = w.plAutoLock /\ plAttached' = w.plAttached
        /\ plLocked' = w.plLocked /\ hostPending' = w.hostPending
        /\ calls' = w.calls
        /\ op' = Op(name, arg)
        /\ UNCHANGED <<lookVars, otherCamera, snapshots, fixedDelta>>

(* an operation that leaves the controller's fields alone *)
Aside(name, arg) ==
    /\ op' = Op(name, arg)
    /\ calls' = NoCalls

Update(deltaSeconds) == Commit(update(World, deltaSeconds), "update", deltaSeconds)

UpdateOptions(options) == Commit(applyOptions(World, options), "updateOptions", options)

SetMovementConfig(cfg) == Commit(setMovementConfig(World, cfg), "setMovementConfig", cfg)

SetLookSensitivity(value) ==
    Commit(setLookSensitivity(World, value), "setLookSensitivity", value)

SetMaxPitch(value) == Commit(setMaxPitch(World, value), "setMaxPitch", value)

SetSprintMultiplier(value) ==
    Commit(setSprintMultiplier(World, value), "setSprintMultiplier", value)

SetPointerLockEnabled(enabled) ==
    Commit(setPointerLockEnabled(World, enabled), "setPointerLockEnabled", enabled)

SetFieldOfView(value) == Commit(setFieldOfView(World, value), "setFieldOfView", value)

EnableCrouch(enabled) == Commit(enableCrouch(World, enabled), "enableCrouch", enabled)

SetCrouch(enabled) == Commit(setCrouch(World, enabled), "setCrouch", enabled)

RequestPointerLock == Commit(requestPointerLock(World), "requestPointerLock", None)

ExitPointerLock == Commit(exitPointerLock(World), "exitPointerLock", None)

Dispose == Commit(dispose(World), "dispose", None)

(* controller.applyToCamera(otherCamera) *)
ApplyToCamera ==
    /\ otherCamera' = cameraOf(World)
    /\ Aside("applyToCamera", None)
    /\ UNCHANGED <<ctlVars, kbVars, plVars, lookVars, snapshots, fixedDelta>>

(* controller.getState(), the result kept by the caller *)
GetState ==
    \E r \in {stateSnapshot(heap)} :
        /\ heap' = r.heap
        /\ snapshots' = Append(snapshots, r.snapshot)
        /\ Aside("getState", None)
        /\ UNCHANGED <<yaw, pitch, onGround, config, lookSensitivity, maxPitch,
                       sprintMultiplier, fieldOfView, crouchEnabled, isCrouching,
                       crouchHeight, crouchSpeedMultiplier, currentHeight, maxStepHeight,
                       maxSlopeAngle, gravityFn, groundCheckFn, jumpCallback,
                       pointerLockChangeCallback, pointerLockToggleCallback, disposed,
                       camera, kbVars, plVars, lookVars, otherCamera, fixedDelta>>

(* the caller writes into a vector of the i-th snapshot it holds:
   snapshot[field].y = value *)
MutateSnapshot(i, field, value) ==
    /\ i \in DOMAIN snapshots
    /\ heap' = [heap EXCEPT ![snapshots[i][field]].y = value]
    /\ Aside("mutateSnapshot", << i, field, value >>)
    /\ UNCHANGED <<yaw, pitch, onGround, config, lookSensitivity, maxPitch,
                   sprintMultiplier, fieldOfView, crouchEnabled, isCrouching,
                   crouchHeight, crouchSpeedMultiplier, currentHeight, maxStepHeight,
                   maxSlopeAngle, gravityFn, groundCheckFn, jumpCallback,
                   pointerLockChangeCallback, pointerLockToggleCallback, disposed,
                   camera, kbVars, plVars, lookVars, otherCamera, snapshots, fixedDelta>>

(* DOM events *)
KeyDown(code) == Commit(keyDown(keydownHandler(World, code), code), "keydown", code)

KeyUp(code) == Commit(keyUp(World, code), "keyup", code)

Focus(hasFocus) == Commit([World EXCEPT !.focused = hasFocus], "focus", hasFocus)

MouseMove(movementX, movementY, onElement) ==
    Commit(onMouseMoveHandler(World, movementX, movementY, onElement),
           "mousemove", << movementX, movementY, onElement >>)

Click == Commit(onClickHandler(World), "click", None)

(* the host grants or refuses a pending request, or releases the lock (on a
   pending exit or on the user's own Escape), and fires pointerlockchange *)
HostGrant ==
    /\ "request" \in hostPending /\ ~plLocked
    /\ Commit(pointerLockChangeHandler(
                  [World EXCEPT !.plLocked = TRUE, !.hostPending = @ \ {"request"}]),
              "hostGrant", None)

HostDeny ==
    /\ "request" \in hostPending
    /\ Commit([World EXCEPT !.hostPending = @ \ {"request"}], "hostDeny", None)

HostRelease ==
    /\ plLocked
    /\ Commit(pointerLockChangeHandler(
                  [World EXCEPT !.plLocked = FALSE, !.hostPending = @ \ {"exit"}]),
              "hostRelease", None)

(* the frame loop settles on one delta and, from then on, only ticks *)
StartFrameLoop(delta) ==
    /\ fixedDelta = None
    /\ fixedDelta' = Some(delta)
    /\ Aside("startFrameLoop", delta)
    /\ UNCHANGED <<ctlVars, kbVars, plVars, lookVars, otherCamera, snapshots>>

(* LookController operations on the look camera and on otherCamera *)
LookOp(l, name, arg) ==
    /\ look' = l
    /\ lookCamera' = lookApplied(l, lookCamera, lookCamera, FALSE)
    /\ Aside(name, arg)
    /\ UNCHANGED <<ctlVars, kbVars, plVars, otherCamera, snapshots, fixedDelta>>

LookMouseMove(movementX, movementY) ==
    LookOp(lookMouseMove(look, movementX, movementY), "look.mousemove",
           << movementX, movementY >>)

LookSetLookAngles(yawValue, pitchValue) ==
    LookOp(lookSetLookAngles(look, yawValue, pitchValue), "look.setLookAngles",
           << yawValue, pitchValue >>)

LookSetFieldOfView(value) ==
    LookOp(lookSetFieldOfView(look, value), "look.setFieldOfView", value)

(* setMaxPitch writes the camera only when the pitch changed *)
LookSetMaxPitch(value) ==
    /\ look' = lookSetMaxPitch(look, value)
    /\ lookCamera' = IF look'.pitch # look.pitch
                     THEN lookApplied(look', lookCamera, lookCamera, FALSE)
                     ELSE lookCamera
    /\ Aside("look.setMaxPitch", value)
    /\ UNCHANGED <<ctlVars, kbVars, plVars, otherCamera, snapshots, fixedDelta>>

(* look.applyToCamera(otherCamera, options): includePosition is None when no
   options are passed *)
LookApplyToCamera(includePosition) ==
    /\ otherCamera' = lookApplied(look, lookCamera, otherCamera,
                                  includePosition # None /\ Val(includePosition))
    /\ Aside("look.applyToCamera", includePosition)
    /\ UNCHANGED <<ctlVars, kbVars, plVars, lookVars, snapshots, fixedDelta>>

(* look.update() *)
LookUpdate ==
    /\ lookCamera' = IF look.disposed THEN lookCamera
                     ELSE lookApplied(look, lookCamera, lookCamera, FALSE)
    /\ Aside("look.update", None)
    /\ UNCHANGED <<ctlVars, kbVars, plVars, look, otherCamera, snapshots, fixedDelta>>

(* look.applyToCamera(camera, options) on the bound camera itself *)
LookApplyToBound(includePosition) ==
    /\ lookCamera' = lookApplied(look, lookCamera, lookCamera,
                                 includePosition # None /\ Val(includePosition))
    /\ Aside("look.applyToBound", includePosition)
    /\ UNCHANGED <<ctlVars, kbVars, plVars, look, otherCamera, snapshots, fixedDelta>>

(* the host moves a camera: camera.position.set(...) *)
MoveCamera(which, pos) ==
    /\ lookCamera' = IF which = "look" THEN [lookCamera EXCEPT !.position = pos]
                     ELSE lookCamera
    /\ otherCamera' = IF which = "other" THEN [otherCamera EXCEPT !.position = pos]
                      ELSE otherCamera
    /\ Aside("moveCamera", << which, pos >>)
    /\ UNCHANGED <<ctlVars, kbVars, plVars, look, snapshots, fixedDelta>>

----------------------------------------------------------------------------
(* Spec: jumping, falling, crouching and disposal, with pointer lock
   available.  An update gets a negative, zero, sub-microsecond or whole-tick
   delta.                                                                   *)

MaxTicks == 2

Deltas == {0 - TickUnits, 0, 1} \cup { n * TickUnits : n \in 1..MaxTicks }

NoLookOptions == [element |-> TRUE]

JumpOptions ==
    { [jumpSpeed |-> Some(160), onJump |-> TRUE, enableCrouch |-> Some(TRUE),
       crouchHeight |-> Some(2560 - 64), onPointerLockChange |-> TRUE],
      [jumpSpeed |-> Some(240), gravityFn |-> "custom15", groundCheckFn |-> "below2",
       onJump |-> TRUE],
      [jumpSpeed |-> Some(200)] }

Init ==
    \E options \in JumpOptions :
        Construct(options, TRUE, TRUE, NoLookOptions, NewCamera(CameraFov))

Next ==
    \/ \E d \in Deltas : Update(d)
    \/ KeyDown("Space")
    \/ KeyUp("Space")
    \/ \E b \in BOOLEAN : SetCrouch(b)
    \/ RequestPointerLock
    \/ ExitPointerLock
    \/ HostGrant
    \/ HostRelease
    \/ Dispose

Spec == Init /\ [][Next]_vars

(* what a step of update() is given *)
Effective(d) == ~IsNoOp(World, d)
JumpHeld == isActionPressed(World, "jump")
DefaultPhysics == gravityFn = "none" /\ groundCheckFn = "none"

(* C1: update(d) with d <= 0, or with 0 < d < 1e-6, leaves position,
   velocity, yaw, pitch, onGround, currentHeight and the bound camera
   unchanged and invokes neither the jump callback nor gravityFn nor
   groundCheckFn. *)
C1_NoOpUpdate ==
    [][(op'.name = "update" /\ op'.arg < MinDelta) =>
          /\ position' = position /\ velocity' = velocity
          /\ yaw' = yaw /\ pitch' = pitch /\ onGround' = onGround
          /\ currentHeight' = currentHeight
          /\ camera' = camera
          /\ calls'.jump = 0 /\ calls'.gravityFn = 0 /\ calls'.groundCheckFn = 0]_vars

(* an update with a non-positive delta was made on a live, grounded rig with
   jump held and with a jump callback, a custom gravity and a custom ground
   check registered: an effective update would have invoked all three *)
C1_Witness ==
    /\ op.name = "update" /\ op.arg <= 0
    /\ ~disposed /\ onGround /\ JumpHeld /\ jumpCallback
    /\ gravityFn # "none" /\ groundCheckFn # "none"

(* C3: in an effective update with jump held, a rig that is airborne when
   the jump step runs gets no impulse and no callback (velocity.y changes
   by gravity only, up to the zeroing at landing); a grounded rig gets
   velocity.y = jumpSpeed, has onGround cleared by the jump step and has the
   jump callback invoked exactly once. *)
C3_JumpOnlyFromGround ==
    [][(op'.name = "update" /\ Effective(op'.arg) /\ JumpHeld) =>
          /\ calls'.jump = B2N(onGround /\ jumpCallback)
          /\ onGround =>
                /\ updateMovement(updateHeight(World, op'.arg), op'.arg).velocity.y
                       = config.jumpSpeed
                /\ ~updateMovement(updateHeight(World, op'.arg), op'.arg).onGround
          /\ \E v \in {(IF onGround THEN config.jumpSpeed ELSE velocity.y)
                       + gravityOf(World).y * Ticks(op'.arg)} :
                velocity'.y = IF onGround' /\ v < 0 THEN 0 ELSE v]_vars

(* an effective update ran with jump held on a rig that was airborne: no
   callback although one is registered *)
C3_Witness ==
    /\ op.name = "update" /\ op.arg >= MinDelta /\ ~disposed
    /\ JumpHeld /\ jumpCallback /\ calls.jump = 0 /\ ~onGround

(* C4 as stated: for every dt >= 1e-6, after an update that started grounded
   with jump held (default gravity and ground check), onGround is false and
   velocity.y > 0. *)
C4_JumpLeavesGround ==
    [][(op'.name = "update" /\ Effective(op'.arg) /\ JumpHeld /\ onGround
        /\ DefaultPhysics) =>
          (~onGround' /\ velocity'.y > 0)]_vars

(* C4, amended: the same for every dt with gravity * dt < jumpSpeed. *)
C4_JumpLeavesGroundShortFrame ==
    [][(op'.name = "update" /\ Effective(op'.arg) /\ JumpHeld /\ onGround
        /\ DefaultPhysics /\ config.gravity * Ticks(op'.arg) < config.jumpSpeed) =>
          (~onGround' /\ velocity'.y > 0)]_vars

(* a jump was made in an update with the default physics and left the rig
   rising *)
C4_Witness ==
    /\ op.name = "update" /\ calls.jump = 1 /\ DefaultPhysics
    /\ config.gravity * Ticks(op.arg) < config.jumpSpeed
    /\ ~onGround /\ velocity.y > 0

(* C6: after dispose(), update(dt), requestPointerLock() and
   exitPointerLock() change no controller state, issue no host pointer-lock
   request or exit and invoke no user callback. *)
C6_DisposedNoOps ==
    [][(disposed /\ op'.name \in {"update", "requestPointerLock", "exitPointerLock"}) =>
          /\ position' = position /\ velocity' = velocity
          /\ yaw' = yaw /\ pitch' = pitch /\ onGround' = onGround
          /\ currentHeight' = currentHeight /\ camera' = camera
          /\ hostPending' = hostPending
          /\ pressedKeys' = pressedKeys /\ pointerLockActive' = pointerLockActive
          /\ calls' = NoCalls]_vars

(* exitPointerLock() was called on a disposed controller that has a
   pointer-lock callback and holds no lock, where PointerLockManager.exitLock
   would notify *)
C6_Witness ==
    /\ disposed /\ op.name = "exitPointerLock"
    /\ pointerLockChangeCallback /\ plSupported /\ ~plLocked

(* C29: in an effective update(dt) velocity.y first gains acceleration.y x
   dt and position.y then moves by the new velocity.y x dt: an airborne rig
   that stays airborne ends with velocity.y increased by acceleration.y x dt
   and position.y increased by that new velocity x dt.  The steps run in the
   order height blend, movement, jump, gravity, ground resolution, camera
   sync: a jump that leaves the ground starts from the blended height with
   jumpSpeed + acceleration.y x dt, a rig that ends grounded has no downward
   velocity left, and the camera holds the final position. *)
C29_SemiImplicitEuler ==
    [][(op'.name = "update" /\ Effective(op'.arg)) =>
          /\ (~onGround /\ ~onGround') =>
                /\ velocity'.y = velocity.y + gravityOf(World).y * Ticks(op'.arg)
                /\ position'.y = position.y + velocity'.y * Ticks(op'.arg)
          /\ (onGround /\ JumpHeld /\ ~onGround') =>
                /\ velocity'.y = config.jumpSpeed + gravityOf(World).y * Ticks(op'.arg)
                /\ position'.y = currentHeight' + velocity'.y * Ticks(op'.arg)
          /\ currentHeight' = blendedHeight(World, op'.arg)
          /\ onGround' => (velocity'.y >= 0 /\ position'.y = currentHeight')
          /\ camera'.position = position'
      ]_vars

(* a falling rig was updated with a two-tick frame and is still in the air *)
C29_Witness ==
    /\ op.name = "update" /\ op.arg = 2 * TickUnits
    /\ ~onGround /\ velocity.y < 0 /\ position.y > currentHeight

----------------------------------------------------------------------------
(* SpecSettle: a rig is thrown into the air by jumps and crouch changes, in
   updates of one tick; then the frame loop settles on one delta and only
   update(delta) runs, the jump key being up.  The loop keeps running: weak
   fairness on its tick.                                                    *)

MaxFrameTicks == 2

FrameDeltas == { n * TickUnits : n \in 1..MaxFrameTicks }

SettleOptions ==
    { [enablePointerLock |-> Some(FALSE), jumpSpeed |-> Some(320),
       enableCrouch |-> Some(TRUE), crouchHeight |-> Some(2560 - 32)],
      [enablePointerLock |-> Some(FALSE), jumpSpeed |-> Some(400),
       gravity |-> Some(40)] }

InitSettle ==
    \E options \in SettleOptions :
        Construct(options, TRUE, TRUE, NoLookOptions, NewCamera(CameraFov))

Tick == \E d \in FrameDeltas : fixedDelta = Some(d) /\ Update(d)

NextSettle ==
    \/ fixedDelta = None /\ Update(TickUnits)
    \/ fixedDelta = None /\ KeyDown("Space")
    \/ fixedDelta = None /\ KeyUp("Space")
    \/ \E b \in BOOLEAN : fixedDelta = None /\ SetCrouch(b)
    \/ \E d \in FrameDeltas : ~JumpHeld /\ StartFrameLoop(d)
    \/ Tick

SpecSettle == InitSettle /\ [][NextSettle]_vars /\ WF_vars(Tick)

AtRest == onGround /\ position.y = currentHeight /\ velocity.y = 0

(* C2: with the default gravity and ground check, no maxStepHeight and jump
   not held, from any state with position.y above currentHeight and
   onGround = false, repeated update(dt) with a fixed dt eventually reaches
   onGround = true with position.y = currentHeight, and from some update on
   keeps onGround = true, position.y = currentHeight and velocity.y = 0. *)
C2_GravitySettles ==
    (fixedDelta # None /\ ~onGround /\ position.y > currentHeight
     /\ DefaultPhysics /\ maxStepHeight = None /\ config.gravity > 0)
        ~> [](AtRest)

(* the frame loop has ticked on a rig that is in the air and falling *)
C2_Witness ==
    /\ fixedDelta # None /\ op.name = "update" /\ op.arg = Val(fixedDelta)
    /\ ~onGround /\ position.y > currentHeight /\ velocity.y < 0
    /\ DefaultPhysics /\ maxStepHeight = None

(* C15: with crouch enabled and the rig crouching on the ground, repeated
   update(dt) brings currentHeight and position.y to exactly crouchHeight,
   below the standing height, and keeps them there; once the rig stands
   again, they return to exactly the standing height and stay there. *)
C15_CrouchSettles ==
    /\ (fixedDelta # None /\ onGround /\ crouchEnabled /\ isCrouching)
           ~> [](/\ currentHeight = crouchHeight /\ position.y = crouchHeight
                 /\ crouchHeight < config.height)
    /\ (fixedDelta # None /\ onGround /\ crouchEnabled /\ ~isCrouching)
           ~> [](currentHeight = config.height /\ position.y = config.height)

(* the frame loop has brought a crouching rig down to its crouch height *)
C15_Witness ==
    /\ fixedDelta # None /\ op.name = "update" /\ op.arg = Val(fixedDelta)
    /\ crouchEnabled /\ isCrouching /\ onGround
    /\ currentHeight = crouchHeight /\ position.y = crouchHeight
    /\ crouchHeight < config.height

----------------------------------------------------------------------------
(* SpecLook: looking around.  Pointer motion arrives on or off the element,
   with or without pointer lock; maxPitch is set to anything, directly and
   through updateOptions.                                                   *)

MaxYaw == 100

LookSteps == {0 - 1000, 60}
YawSteps == {0, 2}
PitchLimits == {0 - 5, 3000, 20000}

LookOptions ==
    { [enablePointerLock |-> Some(FALSE)],
      [maxPitch |-> Some(3000)] }

InitLook ==
    \E options \in LookOptions :
        Construct(options, TRUE, TRUE, NoLookOptions, NewCamera(CameraFov))

NextLook ==
    \/ \E dx \in YawSteps, dy \in LookSteps, onElement \in BOOLEAN :
          /\ MouseMove(dx, dy, onElement)
          /\ Abs(yaw') <= MaxYaw
    \/ \E v \in PitchLimits : SetMaxPitch(v)
    \/ \E v \in PitchLimits : UpdateOptions([maxPitch |-> Some(v)])
    \/ Click
    \/ HostGrant
    \/ HostRelease

SpecLook == InitLook /\ [][NextLook]_vars

(* C5: |pitch| <= maxPitch in every reachable state, for any sequence of
   honoured pointer-motion samples, setMaxPitch and updateOptions({maxPitch})
   calls with arbitrary arguments; narrowing maxPitch below |pitch| re-clamps
   pitch in the same call. *)
C5_PitchWithinMaxPitch == Abs(pitch) <= maxPitch

(* setMaxPitch has just narrowed the limit to its floor of 0.1 rad, and the
   pitch sits on that limit, which no pointer motion from a wider limit
   lands on by itself *)
C5_Witness ==
    /\ op.name = "setMaxPitch" /\ maxPitch = 1000
    /\ Abs(pitch) = maxPitch /\ lookSensitivity = 25

----------------------------------------------------------------------------
(* SpecSnapshot: a caller takes snapshots with getState() while the rig
   jumps, and writes into the vectors of the snapshots it holds.            *)

MaxSnapshots == 2

SnapshotOptions == { [enablePointerLock |-> Some(FALSE), jumpSpeed |-> Some(160)] }

Scribbles == {7}

InitSnapshot ==
    \E options \in SnapshotOptions :
        Construct(options, TRUE, TRUE, NoLookOptions, NewCamera(CameraFov))

NextSnapshot ==
    \/ Update(TickUnits)
    \/ KeyDown("Space")
    \/ KeyUp("Space")
    \/ Len(snapshots) < MaxSnapshots /\ GetState
    \/ \E i \in 1..MaxSnapshots, field \in {"position", "velocity"}, v \in Scribbles :
          MutateSnapshot(i, field, v)

SpecSnapshot == InitSnapshot /\ [][NextSnapshot]_vars

(* what a snapshot s reads as, in the heap h *)
SnapshotValue(h, s) ==
    [position |-> h[s.position], velocity |-> h[s.velocity],
     yaw |-> s.yaw, pitch |-> s.pitch, onGround |-> s.onGround]

Latest(q) == q[Len(q)]

(* C7: getState() returns the controller's values in objects of its own (two
   calls with nothing in between return equal values in distinct objects);
   writing into the position or velocity of a snapshot changes neither the
   controller's state nor any other snapshot; an update or key event changes
   no snapshot returned earlier. *)
C7_SnapshotsAreIndependent ==
    [][/\ op'.name = "getState" =>
             /\ SnapshotValue(heap', Latest(snapshots')) = getState(World)
             /\ {Latest(snapshots').position, Latest(snapshots').velocity}
                    \cap ({PositionId, VelocityId}
                          \cup { snapshots[i].position : i \in DOMAIN snapshots }
                          \cup { snapshots[i].velocity : i \in DOMAIN snapshots }) = {}
             /\ Latest(snapshots').position # Latest(snapshots').velocity
             /\ op.name = "getState" =>
                    SnapshotValue(heap', Latest(snapshots'))
                        = SnapshotValue(heap, Latest(snapshots))
       /\ op'.name = "mutateSnapshot" =>
             /\ position' = position /\ velocity' = velocity
             /\ \A j \in DOMAIN snapshots \ {op'.arg[1]} :
                    SnapshotValue(heap', snapshots[j]) = SnapshotValue(heap, snapshots[j])
       /\ op'.name \in {"update", "keydown", "keyup"} =>
             /\ snapshots' = snapshots
             /\ \A j \in DOMAIN snapshots :
                    SnapshotValue(heap', snapshots[j]) = SnapshotValue(heap, snapshots[j])
      ]_vars

(* two snapshots were taken, the first was written into, and then an update
   moved the rig: the second still differs from the first and from the rig *)
C7_Witness ==
    /\ Len(snapshots) = 2 /\ op.name = "update" /\ ~onGround
    /\ heap[snapshots[1].position].y = 7
    /\ heap[snapshots[2].position].y # 7
    /\ heap[snapshots[2].position] # position

----------------------------------------------------------------------------
(* SpecMove: walking, sprinting and crouch-walking forward, to the right and
   along the diagonal, inside a box around the start.                       *)

MaxRange == 1

InRange(p) ==
    /\ Abs(p.x.r) <= MaxRange * 400 /\ Abs(p.x.s) <= MaxRange * 400
    /\ Abs(p.z.r) <= MaxRange * 400 /\ Abs(p.z.s) <= MaxRange * 400

MoveOptions ==
    { [enablePointerLock |-> Some(FALSE),
       sprintMultiplier |-> Some(200), enableCrouch |-> Some(TRUE),
       crouchHeight |-> Some(2560 - 2), crouchSpeedMultiplier |-> Some(50),
       initialPosition |-> Vec(SZero, 2560, SZero)] }

MoveKeys == {"KeyW", "KeyD", "ShiftLeft"}

InitMove ==
    \E options \in MoveOptions :
        Construct(options, TRUE, TRUE, NoLookOptions, NewCamera(CameraFov))

NextMove ==
    \/ \E d \in FrameDeltas : Update(d) /\ InRange(position')
    \/ \E k \in MoveKeys : KeyDown(k)
    \/ \E k \in MoveKeys : KeyUp(k)
    \/ \E b \in BOOLEAN : SetCrouch(b)

SpecMove == InitMove /\ [][NextMove]_vars

(* moveSpeed x sprintMultiplier x crouchSpeedMultiplier, as the speed itself
   when it is a whole number of units per tick *)
SpeedFactors ==
    config.moveSpeed
    * (IF isActionPressed(World, "sprint") THEN sprintMultiplier ELSE Hundred)
    * (IF crouchEnabled /\ isCrouching THEN crouchSpeedMultiplier ELSE Hundred)

(* C8: after an effective update with a non-zero held direction, the
   horizontal speed sqrt(velocity.x^2 + velocity.z^2) is moveSpeed x
   (sprintMultiplier if sprint is held) x (crouchSpeedMultiplier if crouching),
   whatever dt is, and position has moved by velocity x dt; with moveSpeed 5,
   sprintMultiplier 2 and sprint held while standing the speed exceeds 5. *)
C8_HorizontalSpeed ==
    [][(op'.name = "update" /\ Effective(op'.arg) /\ lengthSq(moveDirection(World)) > 0) =>
          \E speed \in {SpeedFactors \div (Hundred * Hundred)} :
             /\ speed * Hundred * Hundred = SpeedFactors
             /\ SAdd(SSquare(velocity'.x), SSquare(velocity'.z)) = Surd(speed * speed, 0)
             /\ position'.x = SAdd(position.x, SMul(velocity'.x, Ticks(op'.arg)))
             /\ position'.z = SAdd(position.z, SMul(velocity'.z, Ticks(op'.arg)))
             /\ (config.moveSpeed = 400 /\ sprintMultiplier = 200
                 /\ isActionPressed(World, "sprint") /\ ~isCrouching) => speed > 400
      ]_vars

(* an update has moved a sprinting, crouching rig along a diagonal *)
C8_Witness ==
    /\ op.name = "update" /\ op.arg >= MinDelta
    /\ velocity.x.s # 0 /\ velocity.z.s # 0
    /\ isActionPressed(World, "sprint") /\ isCrouching

-----------------------------------------------------------------------------
(* SpecFrames: a rig under the default gravity and one under a vertical custom
   gravity walk and sprint along the axes and the diagonal, in frames of
   every length in FrameDeltas.                                              *)

FrameOptions ==
    { [enablePointerLock |-> Some(FALSE), sprintMultiplier |-> Some(200),
       initialPosition |-> Vec(SZero, 2560, SZero)],
      [enablePointerLock |-> Some(FALSE), gravityFn |-> "custom15",
       sprintMultiplier |-> Some(200), initialPosition |-> Vec(SZero, 2560, SZero)] }

InitFrames ==
    \E options \in FrameOptions :
        Construct(options, TRUE, TRUE, NoLookOptions, NewCamera(CameraFov))

NextFrames ==
    \/ \E d \in FrameDeltas : Update(d) /\ InRange(position')
    \/ \E k \in MoveKeys : KeyDown(k)
    \/ \E k \in MoveKeys : KeyUp(k)

SpecFrames == InitFrames /\ [][NextFrames]_vars

(* C22: with the keys, the yaw and the speed configuration as they are, an
   effective update(a) followed by update(b) moves position.x and position.z
   as far as one update(a + b) does, and both report the same velocity.x and
   velocity.z. *)
C22_FrameRateIndependent ==
    [][(op'.name = "update" /\ Effective(op'.arg)) =>
          \A b \in FrameDeltas :
             /\ update(World', b).position.x = update(World, op'.arg + b).position.x
             /\ update(World', b).position.z = update(World, op'.arg + b).position.z
             /\ update(World', b).velocity.x = update(World, op'.arg + b).velocity.x
             /\ update(World', b).velocity.z = update(World, op'.arg + b).velocity.z
      ]_vars

(* an update has moved a sprinting rig along the diagonal, and a second one
   moves it on *)
C22_Witness ==
    /\ op.name = "update" /\ op.arg >= MinDelta
    /\ isActionPressed(World, "forward") /\ isActionPressed(World, "right")
    /\ isActionPressed(World, "sprint")
    /\ position.x.s # 0
    /\ update(World, TickUnits).position.x # position.x

----------------------------------------------------------------------------
(* SpecCamera: the rig walks forward, looks up and down and changes its field
   of view, and its state is applied to another camera now and then.        *)

CameraOptions ==
    { [enablePointerLock |-> Some(FALSE), maxPitch |-> Some(3000),
       initialPosition |-> Vec(SZero, 2560, SZero)] }

FieldsOfView == {5, 90}
OptionFieldsOfView == {0 - 3, 200}

InitCamera ==
    \E options \in CameraOptions :
        Construct(options, TRUE, TRUE, NoLookOptions, NewCamera(CameraFov))

NextCamera ==
    \/ Update(TickUnits) /\ InRange(position')
    \/ KeyDown("KeyW")
    \/ KeyUp("KeyW")
    \/ \E dy \in {0 - 60, 60} : MouseMove(0, dy, TRUE)
    \/ \E v \in FieldsOfView : SetFieldOfView(v)
    \/ \E v \in OptionFieldsOfView : UpdateOptions([fieldOfView |-> Some(v)])
    \/ ApplyToCamera

SpecCamera == InitCamera /\ [][NextCamera]_vars

(* C10: applyToCamera(camera) leaves the camera at state.position, with the
   orientation built from (pitch, yaw, 0) and with the controller's field of
   view, and leaves the controller's own state unchanged. *)
C10_ApplyToCamera ==
    [][op'.name = "applyToCamera" =>
          /\ otherCamera'.position = position
          /\ otherCamera'.quaternion = QuaternionFromEuler(pitch, yaw, 0)
          /\ otherCamera'.fov = fieldOfView
          /\ UNCHANGED <<ctlVars, kbVars, plVars>>]_vars

(* the state of a rig that has walked, looked away from level and changed
   its field of view was applied to the other camera *)
C10_Witness ==
    /\ op.name = "applyToCamera"
    /\ position # Vec(SZero, 2560, SZero) /\ pitch # 0 /\ fieldOfView # CameraFov
    /\ otherCamera.position = position /\ otherCamera.quaternion.x = pitch
    /\ otherCamera.fov = fieldOfView

(* C16: setFieldOfView(v) and updateOptions({fieldOfView: v}) store
   clamp(v, 10, 150) as the field of view, whatever v is, and write that
   value to the bound camera's fov in the same call. *)
C16_FieldOfViewClamped ==
    [][/\ op'.name = "setFieldOfView" =>
             /\ fieldOfView' = clamp(op'.arg, 10, 150)
             /\ camera'.fov = fieldOfView'
       /\ (op'.name = "updateOptions" /\ Get(op'.arg, "fieldOfView") # None) =>
             /\ fieldOfView' = clamp(Val(op'.arg.fieldOfView), 10, 150)
             /\ camera'.fov = fieldOfView']_vars

(* updateOptions asked for a field of view above the range while the camera
   had another one: the camera got the upper limit *)
C16_Witness ==
    /\ op.name = "updateOptions" /\ op.arg = [fieldOfView |-> Some(200)]
    /\ fieldOfView = 150 /\ camera.fov = 150

----------------------------------------------------------------------------
(* SpecLookCtl: a LookController over its own camera, which the host moves
   about, mirrored now and then into otherCamera.                           *)

LookCtlOptions ==
    { [element |-> TRUE, maxPitch |-> Some(3000), fieldOfView |-> Some(60)] }

CameraPositions ==
    { VZero, Vec(Surd(1600, 0), 3200, Surd(0 - 1600, 0)) }

(* the cameras a LookController is built over: level, or turned and tilted
   up beyond maxPitch *)
LookCameras ==
    { NewCamera(CameraFov),
      [position |-> Vec(Surd(1600, 0), 3200, Surd(0 - 1600, 0)),
       quaternion |-> QuaternionFromEuler(6000, HalfPi, 0), fov |-> CameraFov] }

InitLookCtl ==
    \E lookOptions \in LookCtlOptions, lookCam \in LookCameras :
        Construct([enablePointerLock |-> Some(FALSE)], TRUE, TRUE, lookOptions, lookCam)

NextLookCtl ==
    \/ \E dy \in {0 - 60, 60} : LookMouseMove(0, dy)
    \/ \E p \in {None, Some(0 - 9000)} : LookSetLookAngles(HalfPi, p)
    \/ \E v \in {1500, 3000} : LookSetMaxPitch(v)
    \/ LookSetFieldOfView(90)
    \/ \E o \in {None, Some(FALSE), Some(TRUE)} : LookApplyToCamera(o)
    \/ LookUpdate
    \/ \E o \in {None, Some(TRUE)} : LookApplyToBound(o)
    \/ \E which \in {"look", "other"}, pos \in CameraPositions : MoveCamera(which, pos)

SpecLookCtl == InitLookCtl /\ [][NextLookCtl]_vars

(* C9: LookController.applyToCamera(otherCamera) with no options or with
   includePosition false sets otherCamera's orientation and field of view
   from the controller and leaves otherCamera.position unchanged; with
   includePosition true it also sets otherCamera.position to the bound
   camera's position. *)
C9_LookApplyToCamera ==
    [][op'.name = "look.applyToCamera" =>
          /\ otherCamera'.quaternion = QuaternionFromEuler(look.pitch, look.yaw, 0)
          /\ otherCamera'.fov = look.fieldOfView
          /\ otherCamera'.position = IF op'.arg = Some(TRUE) THEN lookCamera.position
                                     ELSE otherCamera.position
          /\ UNCHANGED <<look, lookCamera>>]_vars

(* the look was applied without options to a camera that stands elsewhere
   than the bound camera: it took the orientation and the field of view and
   kept its place *)
C9_Witness ==
    /\ op.name = "look.applyToCamera" /\ op.arg = None
    /\ otherCamera.position # lookCamera.position
    /\ look.pitch # 0 /\ look.fieldOfView # OtherCameraFov
    /\ otherCamera.quaternion = lookCamera.quaternion
    /\ otherCamera.fov = look.fieldOfView

(* the LookController operations that write the bound camera *)
LookOperations ==
    {"look.mousemove", "look.setLookAngles", "look.setMaxPitch", "look.setFieldOfView",
     "look.update", "look.applyToBound"}

(* C24: pointer motion, setLookAngles, setMaxPitch, setFieldOfView, update
   and applyToCamera on the bound camera leave the bound camera's position
   as it was. *)
C24_LookKeepsCameraPosition ==
    [][op'.name \in LookOperations => lookCamera'.position = lookCamera.position]_vars

(* the look was applied, position included, to the bound camera, which
   stands away from the origin and has been turned and tilted *)
C24_Witness ==
    /\ op.name = "look.applyToBound" /\ op.arg = Some(TRUE)
    /\ lookCamera.position # VZero
    /\ lookCamera.quaternion = QuaternionFromEuler(look.pitch, look.yaw, 0)
    /\ look.pitch = 0 - 3000 /\ look.yaw = HalfPi

----------------------------------------------------------------------------
(* SpecLookPitch: LookControllers built with no maxPitch option and with
   maxPitch options below, inside and above [0.1, pi/2 - 0.01], over a level
   camera and over a tilted one.                                            *)

LookPitchOptions ==
    { [element |-> TRUE],
      [element |-> TRUE, maxPitch |-> Some(500)],
      [element |-> TRUE, maxPitch |-> Some(3000)],
      [element |-> TRUE, maxPitch |-> Some(20000)] }

InitLookPitch ==
    \E lookOptions \in LookPitchOptions, lookCam \in LookCameras :
        Construct([enablePointerLock |-> Some(FALSE)], TRUE, TRUE, lookOptions, lookCam)

NextLookPitch ==
    \/ \E dy \in {0 - 60, 60} : LookMouseMove(0, dy)
    \/ \E p \in {None, Some(0 - 9000)} : LookSetLookAngles(HalfPi, p)
    \/ \E v \in {500, 1500, 20000} : LookSetMaxPitch(v)

SpecLookPitch == InitLookPitch /\ [][NextLookPitch]_vars

(* C25: a LookController's maxPitch lies in [0.1, pi/2 - 0.01] and its pitch
   in [-maxPitch, maxPitch], from construction on. *)
C25_LookPitchInRange ==
    /\ clampMaxPitch(look.maxPitch) = look.maxPitch
    /\ Abs(look.pitch) <= look.maxPitch

----------------------------------------------------------------------------
(* SpecPointerLock: the PointerLockManager of a controller, on hosts with and
   without pointer lock, driven through its own methods, through the
   controller and by the host's grants, refusals and releases.             *)

(* PointerLockManager methods called directly *)
PlSetEnabled(enabled) == Commit(setEnabled(World, enabled), "pl.setEnabled", enabled)

PlRequestLock == Commit(requestLock(World), "pl.requestLock", None)

PlExitLock == Commit(exitLock(World), "pl.exitLock", None)

PlDispose == Commit(plDispose(World), "pl.dispose", None)

PointerLockOptions ==
    { [onPointerLockChange |-> TRUE],
      [enablePointerLock |-> Some(FALSE), onPointerLockToggle |-> TRUE],
      [autoPointerLock |-> Some(FALSE)] }

InitPointerLock ==
    \E options \in PointerLockOptions, supported \in BOOLEAN :
        Construct(options, supported, TRUE, NoLookOptions, NewCamera(CameraFov))

NextPointerLock ==
    \/ \E b \in BOOLEAN : PlSetEnabled(b)
    \/ PlRequestLock
    \/ PlExitLock
    \/ PlDispose
    \/ \E b \in BOOLEAN : SetPointerLockEnabled(b)
    \/ Click
    \/ KeyDown("Escape")
    \/ HostGrant
    \/ HostDeny
    \/ HostRelease

SpecPointerLock == InitPointerLock /\ [][NextPointerLock]_vars

(* C11: on a host without pointer lock, whatever is called, the manager
   stays unsupported, disabled and unlocked, and no lock request or exit
   ever reaches the host. *)
C11_UnsupportedHost ==
    /\ [](~plSupported =>
            /\ ~plEnabled
            /\ ~isLocked(World)
            /\ hostPending = {}
            /\ calls.hostRequest = 0 /\ calls.hostExit = 0)
    /\ [][~plSupported => ~plSupported']_vars

(* setEnabled(true) was called on a host without pointer lock *)
C11_Witness ==
    /\ ~plSupported
    /\ op.name = "pl.setEnabled" /\ op.arg = TRUE
    /\ ~plEnabled /\ calls.hostRequest = 0

(* C12: requestLock() asks the host exactly when pointer lock is supported
   and enabled; exitLock() asks the host to exit exactly when it is
   supported and the element holds the lock; isLocked() is true on a
   supported host exactly while the element holds the lock: true once a
   request is granted, false once the release has been processed. *)
C12_RequestAndExit ==
    [][/\ op'.name = "pl.requestLock" =>
             /\ calls'.hostRequest = (IF plSupported /\ plEnabled THEN 1 ELSE 0)
             /\ calls'.hostExit = 0
             /\ ("request" \in hostPending') =
                    ("request" \in hostPending \/ (plSupported /\ plEnabled))
       /\ op'.name = "pl.exitLock" =>
             /\ calls'.hostExit = (IF plSupported /\ plLocked THEN 1 ELSE 0)
             /\ calls'.hostRequest = 0
             /\ ("exit" \in hostPending') =
                    ("exit" \in hostPending \/ (plSupported /\ plLocked))
       /\ op'.name = "hostGrant" => isLocked(World)'
       /\ op'.name = "hostRelease" => ~isLocked(World)'
       /\ plSupported' => (isLocked(World)' = plLocked')]_vars

(* exitLock() was called while the element held the lock, and the exit
   reached the host *)
C12_Witness ==
    /\ op.name = "pl.exitLock"
    /\ plSupported /\ plLocked
    /\ calls.hostExit = 1 /\ "exit" \in hostPending

----------------------------------------------------------------------------
(* SpecKeyboard: the KeyboardControls of a controller: key events with and
   without focus, pointer lock coming and going, bindings replaced at run
   time, and the caller writing into the arrays it passed.                 *)

SetKeyBindings(overrides) ==
    Commit(setKeyBindings(World, overrides), "setKeyBindings", overrides)

(* the caller pushes a code onto the array it passed for an action *)
MutateArray(action, code) ==
    /\ arrays' = [arrays EXCEPT !.arg[action] = @ \cup {code}]
    /\ Aside("mutateArray", << action, code >>)
    /\ UNCHANGED <<ctlVars, pressedKeys, keyBindings, pointerLockActive, kbAttached,
                   focused, plVars, lookVars, otherCamera, snapshots, fixedDelta>>

KeyCodes == {"KeyW", "ArrowUp", "KeyQ"}

BindingOverrides ==
    { [forward |-> Some({"ArrowUp"})],
      [forward |-> Some({"KeyQ"}), jump |-> None],
      [jump |-> Some({"KeyQ", "Space"})] }

KeyboardOptions == { [enablePointerLock |-> Some(FALSE)], [autoPointerLock |-> Some(TRUE)] }

InitKeyboard ==
    \E options \in KeyboardOptions, hasFocus \in BOOLEAN :
        Construct(options, TRUE, hasFocus, NoLookOptions, NewCamera(CameraFov))

NextKeyboard ==
    \/ \E code \in KeyCodes : KeyDown(code)
    \/ \E code \in KeyCodes : KeyUp(code)
    \/ \E b \in BOOLEAN : Focus(b)
    \/ \E overrides \in BindingOverrides : SetKeyBindings(overrides)
    \/ MutateArray("forward", "KeyW")
    \/ Click
    \/ HostGrant
    \/ HostRelease

SpecKeyboard == InitKeyboard /\ [][NextKeyboard]_vars

bound(action) == codes(World, keyBindings[action])

eligible == shouldHandleEvent(World)

(* C13: while key events are eligible, an action is pressed exactly when a
   key bound to it has received a keydown with no later keyup or reset: so
   when the element gets the focus back right after the keyup of the only
   key that was down, no action is pressed. *)
C13_PressedIffHeld ==
    [][(/\ op.name = "keyup" /\ pressedKeys \subseteq {op.arg}
        /\ op'.name = "focus" /\ eligible')
       => \A action \in MovementActions : ~isActionPressed(World, action)']_vars

(* C14: updateBindings(overrides) replaces the key list of exactly the
   actions that overrides gives a list for, and leaves the other bindings
   and the pressed keys unchanged; afterwards an action is pressed only
   through its new codes; and what the caller later writes into the arrays
   it passed does not reach the stored bindings. *)
C14_UpdateBindings ==
    [][/\ op'.name = "setKeyBindings" =>
             /\ \A action \in MovementActions :
                   /\ bound(action)' = IF Get(op'.arg, action) # None
                                       THEN Val(op'.arg[action]) ELSE bound(action)
                   /\ isActionPressed(World, action)'
                          = (bound(action)' \cap pressedKeys # {})
             /\ pressedKeys' = pressedKeys
       /\ op'.name = "mutateArray" =>
             /\ \A action \in MovementActions : bound(action)' = bound(action)
             /\ pressedKeys' = pressedKeys]_vars

(* the caller rebound forward while KeyW was down and then pushed KeyW onto
   the array it had passed: forward is still bound to the passed codes only,
   and is not pressed *)
C14_Witness ==
    /\ op.name = "mutateArray"
    /\ "KeyW" \in pressedKeys
    /\ "KeyW" \in arrays.arg["forward"]
    /\ bound("forward") = {"ArrowUp"}
    /\ ~isActionPressed(World, "forward")

----------------------------------------------------------------------------
(* SpecStrategies: rigs with an injected gravityFn, an injected
   groundCheckFn, both or one of them, some of which write into the
   arguments they are given; the rig jumps and falls, and update() gets
   no-op and effective deltas.                                             *)

StrategyOptions ==
    { [enablePointerLock |-> Some(FALSE), gravityFn |-> "scribble",
       groundCheckFn |-> "scribble"],
      [enablePointerLock |-> Some(FALSE), gravityFn |-> "planet",
       groundCheckFn |-> "below2"],
      [enablePointerLock |-> Some(FALSE), gravityFn |-> "wind", jumpSpeed |-> Some(240)],
      [enablePointerLock |-> Some(FALSE), groundCheckFn |-> "below2"] }

InitStrategies ==
    \E options \in StrategyOptions :
        Construct(options, TRUE, TRUE, NoLookOptions, NewCamera(CameraFov))

NextStrategies ==
    \/ \E d \in Deltas : Update(d)
    \/ KeyDown("Space")
    \/ KeyUp("Space")

SpecStrategies == InitStrategies /\ [][NextStrategies]_vars

(* the acceleration an update integrates once the movement step has left
   the rig at p *)
gravityAt(p) ==
    IF gravityFn # "none" THEN GravityFnResult(gravityFn, p)
    ELSE Vec(SZero, 0 - config.gravity, SZero)

(* C17: an effective update calls a configured gravityFn exactly once, with
   the position as the movement step left it, and integrates the vector it
   returns instead of (0, -gravity, 0); it calls a configured groundCheckFn
   exactly once, with the state as gravity left it and with dt, and takes
   onGround from its answer instead of the height test; what the functions
   write into their arguments does not reach the controller; a no-op update
   calls neither. *)
C17_InjectedStrategies ==
    [][op'.name = "update" =>
        IF ~Effective(op'.arg)
        THEN /\ calls'.gravityFn = 0 /\ calls'.gravityArgs = << >>
             /\ calls'.groundCheckFn = 0 /\ calls'.groundArgs = << >>
        ELSE LET t == Ticks(op'.arg)
                 y1 == IF onGround THEN currentHeight' ELSE position.y
                 p1 == Vec(position'.x, y1, position'.z)
                 vy1 == IF JumpHeld /\ onGround THEN config.jumpSpeed ELSE velocity.y
                 g == gravityAt(p1)
                 vy2 == vy1 + g.y * t
                 y2 == y1 + vy2 * t
                 given == [position |-> Vec(position'.x, y2, position'.z),
                           velocity |-> Vec(SMul(g.x, t), vy2, SMul(g.z, t)),
                           yaw |-> yaw, pitch |-> pitch,
                           onGround |-> onGround /\ ~JumpHeld]
             IN  /\ calls'.gravityFn = B2N(gravityFn # "none")
                 /\ calls'.gravityArgs = IF gravityFn # "none" THEN << p1 >> ELSE << >>
                 /\ calls'.groundCheckFn = B2N(groundCheckFn # "none")
                 /\ calls'.groundArgs = IF groundCheckFn # "none"
                                        THEN << [state |-> given, delta |-> op'.arg] >>
                                        ELSE << >>
                 /\ onGround' = IF groundCheckFn # "none"
                                THEN GroundCheckFnResult(groundCheckFn, given, op'.arg).onGround
                                ELSE y2 <= currentHeight'
                 /\ velocity' = Vec(SMul(g.x, t), IF onGround' /\ vy2 < 0 THEN 0 ELSE vy2,
                                    SMul(g.z, t))
                 /\ position'.y = IF onGround' THEN currentHeight' ELSE y2]_vars

(* an update of a rig in the air called a gravityFn and a groundCheckFn that
   both write into what they are given, and the rig stayed in the air *)
C17_Witness ==
    /\ op.name = "update" /\ Effective(op.arg)
    /\ gravityFn = "scribble" /\ groundCheckFn = "scribble"
    /\ calls.gravityFn = 1 /\ calls.groundCheckFn = 1
    /\ calls.gravityArgs[1].y > 0
    /\ ~onGround /\ position.y > 2 * UnitsPerMeter

----------------------------------------------------------------------------
(* SpecHeights: rigs built with a height, a crouch height or an initial
   position of their own; the height and the crouch height are changed at
   run time, through setMovementConfig and through updateOptions, while
   the rig crouches, stands and is updated.                                *)

Heights == {320, 1600, 3200}
CrouchHeights == {100, 2048}

HeightOptions ==
    { [enablePointerLock |-> Some(FALSE), enableCrouch |-> Some(TRUE),
       height |-> Some(3200), crouchHeight |-> Some(2048)],
      [enablePointerLock |-> Some(FALSE), enableCrouch |-> Some(TRUE),
       height |-> Some(1600)],
      [enablePointerLock |-> Some(FALSE), enableCrouch |-> Some(TRUE),
       initialPosition |-> Vec(SZero, 0, SZero)] }

InitHeights ==
    \E options \in HeightOptions :
        Construct(options, TRUE, TRUE, NoLookOptions, NewCamera(CameraFov))

NextHeights ==
    \/ \E h \in Heights : SetMovementConfig([height |-> h])
    \/ UpdateOptions([height |-> Some(1600)])
    \/ \E c \in CrouchHeights : UpdateOptions([crouchHeight |-> Some(c)])
    \/ \E b \in BOOLEAN : SetCrouch(b)
    \/ Update(2 * TickUnits)

SpecHeights == InitHeights /\ [][NextHeights]_vars

(* C18: between operations, a rig that is on the ground is at or above its
   current eye height. *)
C18_GroundedAtOrAboveHeight == onGround => position.y >= currentHeight

(* C19: crouchHeight is at least 0.3 and at most the configured height,
   whatever positive heights were configured. *)
C19_CrouchHeightInRange ==
    MIN_CROUCH_HEIGHT <= crouchHeight /\ crouchHeight <= config.height

(* C19, for heights of at least 0.3: crouchHeight is at least 0.3 and at
   most the configured height; for a height below 0.3, crouchHeight is 0.3. *)
C19_CrouchHeightInRangeOfTallRigs ==
    /\ MIN_CROUCH_HEIGHT <= crouchHeight
    /\ config.height >= MIN_CROUCH_HEIGHT => crouchHeight <= config.height
    /\ config.height < MIN_CROUCH_HEIGHT => crouchHeight = MIN_CROUCH_HEIGHT

(* setMovementConfig lowered the height below the crouch height the rig had,
   and the crouch height came down with it *)
C19_Witness ==
    /\ op.name = "setMovementConfig" /\ op.arg = [height |-> 1600]
    /\ config.height = 1600 /\ crouchHeight = 1600

(* C21: setMovementConfig({height: h}) and updateOptions({height: h}) on a
   standing rig put position.y at h within the call when it was below h, and
   leave the position as it was when it was at or above h. *)
C21_HeightRaisedSnapsUp ==
    [][/\ (op'.name = "setMovementConfig" /\ ~(isCrouching /\ crouchEnabled)) =>
             position' = IF position.y < op'.arg.height
                         THEN [position EXCEPT !.y = op'.arg.height] ELSE position
       /\ (op'.name = "updateOptions" /\ Get(op'.arg, "height") # None
           /\ ~(isCrouching /\ crouchEnabled)) =>
             position' = IF position.y < Val(op'.arg.height)
                         THEN [position EXCEPT !.y = Val(op'.arg.height)] ELSE position
      ]_vars

(* setMovementConfig raised the height of a standing rig above where it
   stood: the rig is at the new height, ahead of the camera, which only the
   next update moves *)
C21_Witness ==
    /\ op.name = "setMovementConfig" /\ op.arg = [height |-> 3200]
    /\ ~isCrouching /\ position.y = 3200 /\ camera.position.y < 3200

----------------------------------------------------------------------------
(* SpecDerivedCrouch: rigs that are never given a crouchHeight: the height
   is configured at construction or not at all, and changed at run time.   *)

DerivedCrouchOptions ==
    { [enablePointerLock |-> Some(FALSE), enableCrouch |-> Some(TRUE)],
      [enablePointerLock |-> Some(FALSE), enableCrouch |-> Some(TRUE),
       height |-> Some(1600)],
      [enablePointerLock |-> Some(FALSE), height |-> Some(3200)] }

InitDerivedCrouch ==
    \E options \in DerivedCrouchOptions :
        Construct(options, TRUE, TRUE, NoLookOptions, NewCamera(CameraFov))

NextDerivedCrouch ==
    \/ \E h \in Heights : SetMovementConfig([height |-> h])
    \/ \E h \in Heights : UpdateOptions([height |-> Some(h)])
    \/ \E b \in BOOLEAN : EnableCrouch(b)
    \/ \E b \in BOOLEAN : SetCrouch(b)
    \/ Update(2 * TickUnits)

SpecDerivedCrouch == InitDerivedCrouch /\ [][NextDerivedCrouch]_vars

(* C20: as long as no crouchHeight was ever supplied, crouchHeight is 0.6
   times the configured height, clamped to [0.3, height]. *)
C20_CrouchHeightDerived ==
    crouchHeight = clamp((config.height * DEFAULT_CROUCH_HEIGHT_RATIO) \div Hundred,
                         MIN_CROUCH_HEIGHT, config.height)

----------------------------------------------------------------------------
(* SpecDispose: rigs with every callback registered, with pointer lock
   enabled and disabled, receive keys, pointer motion, clicks, focus changes
   and the host's pointer-lock events, before and after dispose().          *)

DisposeOptions ==
    { [onJump |-> TRUE, onPointerLockChange |-> TRUE, onPointerLockToggle |-> TRUE,
       maxPitch |-> Some(3000)],
      [onJump |-> TRUE, onPointerLockChange |-> TRUE, onPointerLockToggle |-> TRUE,
       maxPitch |-> Some(3000), enablePointerLock |-> Some(FALSE)] }

InitDispose ==
    \E options \in DisposeOptions :
        Construct(options, TRUE, TRUE, NoLookOptions, NewCamera(CameraFov))

NextDispose ==
    \/ Dispose
    \/ \E k \in {"KeyW", "Escape"} : KeyDown(k)
    \/ KeyUp("KeyW")
    \/ \E b \in BOOLEAN : Focus(b)
    \/ \E dy \in {0 - 60, 60}, onElement \in BOOLEAN : MouseMove(0, dy, onElement)
    \/ Click
    \/ RequestPointerLock
    \/ HostGrant
    \/ HostDeny
    \/ HostRelease

SpecDispose == InitDispose /\ [][NextDispose]_vars

(* the events dispose() unsubscribes from *)
ListenedEvents == {"keydown", "keyup", "mousemove", "click", "hostGrant", "hostRelease"}

(* C23: a dispose() of a disposed controller changes nothing, invokes no
   callback and makes no host call; after the first dispose() no key, pointer
   motion, click or pointer-lock-change event changes the controller's state,
   marks an action as pressed or invokes a callback. *)
C23_DisposeIsTerminal ==
    [][(disposed /\ op'.name \in ListenedEvents \cup {"dispose"}) =>
          /\ UNCHANGED <<ctlVars, pressedKeys, keyBindings, arrays, pointerLockActive,
                         kbAttached, plSupported, plEnabled, plAutoLock, plAttached>>
          /\ calls' = NoCalls
          /\ \A a \in MovementActions : ~isActionPressed(World', a)
          /\ op'.name = "dispose" => UNCHANGED <<plLocked, hostPending>>
      ]_vars

(* a controller that was disposed while it held the pointer lock is disposed
   a second time before the host has released the lock *)
C23_Witness ==
    /\ op.name = "dispose" /\ disposed /\ calls = NoCalls
    /\ plLocked /\ "exit" \in hostPending

----------------------------------------------------------------------------
(* SpecGround: rigs with a step limit, a slope limit or both, over the
   default ground check and over custom ones (flat ground below 2 m, a slope
   steeper than 45 degrees, ground everywhere); they jump, rest, fall and, where
   the limits reject the ground, fall on, down to MaxFall metres below zero. *)

MaxFall == 1

GroundOptions ==
    { [enablePointerLock |-> Some(FALSE), maxStepHeight |-> Some(160),
       jumpSpeed |-> Some(240)],
      [enablePointerLock |-> Some(FALSE), groundCheckFn |-> "steep",
       maxSlopeAngle |-> Some(450), maxStepHeight |-> Some(3200)],
      [enablePointerLock |-> Some(FALSE), groundCheckFn |-> "steep",
       maxSlopeAngle |-> Some(600), maxStepHeight |-> Some(0 - 160)],
      [enablePointerLock |-> Some(FALSE), groundCheckFn |-> "always",
       jumpSpeed |-> Some(240)],
      [enablePointerLock |-> Some(FALSE), groundCheckFn |-> "below2",
       maxStepHeight |-> Some(1600), jumpSpeed |-> Some(240)] }

InitGround ==
    \E options \in GroundOptions :
        Construct(options, TRUE, TRUE, NoLookOptions, NewCamera(CameraFov))

NextGround ==
    \/ \E d \in FrameDeltas : Update(d) /\ position'.y >= 0 - MaxFall * UnitsPerMeter
    \/ KeyDown("Space")
    \/ KeyUp("Space")
    \/ \E v \in {0 - 160, 160} : UpdateOptions([maxStepHeight |-> Some(v)])

SpecGround == InitGround /\ [][NextGround]_vars

(* the rig as update(d) hands it to resolveGround: after the height blend,
   the movement step and the gravity integration *)
PreGround(d) == applyGravity(updateMovement(updateHeight(World, d), d), d)

(* what the ground check reports for it *)
Reported(d) == runGroundCheck(PreGround(d), d)

(* the slope limit is configured, the check reports a normal and the normal
   is further from the up vector than the limit allows *)
SlopeRejects(d) ==
    /\ maxSlopeAngle # None /\ Reported(d).groundNormal # None
    /\ Val(Reported(d).groundNormal) > Val(maxSlopeAngle)

StepExceeded(d) ==
    /\ maxStepHeight # None
    /\ Abs(PreGround(d).currentHeight - PreGround(d).position.y) > Val(maxStepHeight)

(* C26: at the end of an effective update, whatever the ground check and the
   limits: a grounded rig is at currentHeight with velocity.y >= 0; when the
   ground result after the overrides is true, an upward velocity.y is kept
   and a negative one zeroed; when it is false, onGround is false and
   position.y and velocity.y are what the gravity integration left. *)
C26_GroundResolution ==
    [][(op'.name = "update" /\ Effective(op'.arg)) =>
          /\ onGround' => (position'.y = currentHeight' /\ velocity'.y >= 0)
          /\ (Reported(op'.arg).onGround /\ ~SlopeRejects(op'.arg) /\ ~StepExceeded(op'.arg)) =>
                /\ onGround'
                /\ velocity'.y = IF PreGround(op'.arg).velocity.y < 0 THEN 0
                                 ELSE PreGround(op'.arg).velocity.y
          /\ ~(Reported(op'.arg).onGround /\ ~SlopeRejects(op'.arg) /\ ~StepExceeded(op'.arg)) =>
                /\ ~onGround'
                /\ position'.y = PreGround(op'.arg).position.y
                /\ velocity'.y = PreGround(op'.arg).velocity.y
      ]_vars

(* a rig that jumped under a ground check that still reports ground: it is
   grounded at its height and keeps its upward velocity *)
C26_Witness ==
    /\ op.name = "update" /\ op.arg >= MinDelta
    /\ groundCheckFn # "none" /\ onGround /\ velocity.y > 0 /\ position.y = currentHeight

(* C27: with maxStepHeight configured and the ground check reporting
   grounded, the rig is treated as not grounded exactly when
   |currentHeight - position.y| > maxStepHeight: then onGround is false and
   position.y is not snapped, otherwise position.y is snapped to
   currentHeight; a negative maxStepHeight option is stored as 0. *)
C27_StepLimit ==
    [][/\ (op'.name = "update" /\ Effective(op'.arg) /\ maxStepHeight # None
           /\ Reported(op'.arg).onGround) =>
             IF StepExceeded(op'.arg)
             THEN ~onGround' /\ position'.y = PreGround(op'.arg).position.y
             ELSE onGround' /\ position'.y = currentHeight'
       /\ (op'.name = "updateOptions" /\ Get(op'.arg, "maxStepHeight") # None
           /\ Val(op'.arg.maxStepHeight) < 0) => maxStepHeight' = Some(0)
      ]_vars

(* C27, with the slope limit in view: the same, for a ground the slope limit
   has not already rejected; a ground it rejected is no ground whatever the
   step is. *)
C27_StepLimitAfterSlopeLimit ==
    [][/\ (op'.name = "update" /\ Effective(op'.arg) /\ maxStepHeight # None
           /\ Reported(op'.arg).onGround /\ ~SlopeRejects(op'.arg)) =>
             IF StepExceeded(op'.arg)
             THEN ~onGround' /\ position'.y = PreGround(op'.arg).position.y
             ELSE onGround' /\ position'.y = currentHeight'
       /\ (op'.name = "update" /\ Effective(op'.arg) /\ maxStepHeight # None
           /\ Reported(op'.arg).onGround /\ SlopeRejects(op'.arg)) =>
             ~onGround' /\ position'.y = PreGround(op'.arg).position.y
       /\ (op'.name = "updateOptions" /\ Get(op'.arg, "maxStepHeight") # None
           /\ Val(op'.arg.maxStepHeight) < 0) => maxStepHeight' = Some(0)
      ]_vars

(* a rig over the default ground check has sunk further below its height in
   one update than its step limit allows: it is not grounded and not lifted *)
C27_Witness ==
    /\ op.name = "update" /\ op.arg >= MinDelta
    /\ groundCheckFn = "none" /\ maxStepHeight = Some(160)
    /\ ~onGround /\ position.y < currentHeight - 160

----------------------------------------------------------------------------
(* SpecIdle: rigs under the default gravity, under a custom gravity that
   points down and under one with a sideways component, with forward,
   backward and right pressed alone, together or not at all.               *)

IdleOptions ==
    { [enablePointerLock |-> Some(FALSE), initialPosition |-> Vec(SZero, 2560, SZero)],
      [enablePointerLock |-> Some(FALSE), initialPosition |-> Vec(SZero, 2560, SZero),
       gravityFn |-> "custom15"],
      [enablePointerLock |-> Some(FALSE), initialPosition |-> Vec(SZero, 2560, SZero),
       gravityFn |-> "wind"] }

IdleKeys == {"KeyW", "KeyS", "KeyD"}

InitIdle ==
    \E options \in IdleOptions :
        Construct(options, TRUE, TRUE, NoLookOptions, NewCamera(CameraFov))

NextIdle ==
    \/ Update(TickUnits) /\ InRange(position')
    \/ \E k \in IdleKeys : KeyDown(k)
    \/ \E k \in IdleKeys : KeyUp(k)

SpecIdle == InitIdle /\ [][NextIdle]_vars

(* C28: an effective update in which no direction is held, or in which the
   held directions cancel, leaves position.x and position.z unchanged and
   reports velocity.x = velocity.z = 0, under the default gravity and under
   any custom gravity function. *)
C28_IdleMeansStill ==
    [][(op'.name = "update" /\ Effective(op'.arg) /\ lengthSq(moveDirection(World)) = 0) =>
          /\ position'.x = position.x /\ position'.z = position.z
          /\ velocity'.x = SZero /\ velocity'.z = SZero
      ]_vars

----------------------------------------------------------------------------
(* SpecPointerMotion: pointer motion on and off the element, on hosts with
   and without pointer lock, while pointer lock is enabled, disabled,
   requested, granted and released, before and after dispose(); the rig
   jumps and falls, updated while it faces straight ahead.                  *)

PointerMotionOptions ==
    { [maxPitch |-> Some(3000)],
      [maxPitch |-> Some(3000), enablePointerLock |-> Some(FALSE)] }

InitPointerMotion ==
    \E options \in PointerMotionOptions, supported \in BOOLEAN :
        Construct(options, supported, TRUE, NoLookOptions, NewCamera(CameraFov))

NextPointerMotion ==
    \/ \E dx \in YawSteps, dy \in {0 - 60, 60}, onElement \in BOOLEAN :
          /\ MouseMove(dx, dy, onElement)
          /\ Abs(yaw') <= MaxYaw
    \/ \E b \in BOOLEAN : SetPointerLockEnabled(b)
    \/ Click
    \/ HostGrant
    \/ HostRelease
    \/ KeyDown("Space")
    \/ yaw = 0 /\ Update(TickUnits)
    \/ Dispose

SpecPointerMotion == InitPointerMotion /\ [][NextPointerMotion]_vars

(* C30: a pointer-motion sample (dx, dy) is honoured exactly when the
   controller is not disposed and either pointer lock is enabled and engaged
   or pointer lock is disabled and the event comes from the element or from
   inside it.  Honoured, it sets yaw to yaw - dx x lookSensitivity and pitch
   to clamp(pitch - dy x lookSensitivity, -maxPitch, maxPitch) and leaves
   position, velocity and onGround alone; otherwise it changes nothing. *)
C30_PointerMotion ==
    [][op'.name = "mousemove" =>
          IF /\ ~disposed
             /\ \/ plEnabled /\ isLocked(World)
                \/ ~plEnabled /\ op'.arg[3]
          THEN /\ yaw' = yaw - op'.arg[1] * lookSensitivity
               /\ pitch' = clamp(pitch - op'.arg[2] * lookSensitivity,
                                 0 - maxPitch, maxPitch)
               /\ UNCHANGED <<heap, onGround>>
          ELSE /\ UNCHANGED <<ctlVars, kbVars, plVars>>
               /\ calls' = NoCalls
      ]_vars

(* the pointer moved away from the element while the lock was engaged: the
   rig, which is in the air, turned and tilted *)
C30_Witness ==
    /\ op.name = "mousemove" /\ op.arg = << 2, 60, FALSE >>
    /\ plEnabled /\ plLocked /\ ~onGround
    /\ yaw = 0 - 2 * lookSensitivity /\ pitch = 0 - 60 * lookSensitivity

-----------------------------------------------------------------------------
(* SpecLockLoss: a rig with both pointer-lock callbacks and one with none
   hold the forward and jump keys while the pointer lock is requested,
   granted, released, disabled and enabled, and frames of one tick run.      *)

LockLossOptions ==
    { [jumpSpeed |-> Some(160), onPointerLockChange |-> TRUE,
       onPointerLockToggle |-> TRUE, initialPosition |-> Vec(SZero, 2560, SZero)],
      [jumpSpeed |-> Some(160), enablePointerLock |-> Some(FALSE),
       initialPosition |-> Vec(SZero, 2560, SZero)] }

LockLossKeys == {"KeyW", "Space"}

InitLockLoss ==
    \E options \in LockLossOptions :
        Construct(options, TRUE, TRUE, NoLookOptions, NewCamera(CameraFov))

NextLockLoss ==
    \/ Update(TickUnits) /\ InRange(position')
    \/ \E k \in LockLossKeys : KeyDown(k)
    \/ \E k \in LockLossKeys : KeyUp(k)
    \/ \E f \in BOOLEAN : Focus(f)
    \/ \E b \in BOOLEAN : SetPointerLockEnabled(b)
    \/ RequestPointerLock
    \/ ExitPointerLock
    \/ HostGrant
    \/ HostRelease

SpecLockLoss == InitLockLoss /\ [][NextLockLoss]_vars

(* C31, the state after a notification: when the last operation delivered pointer-lock notifications, the
   keyboard's pointerLockActive equals the notified value and the registered
   change and toggle callbacks were invoked once per notification, change
   first, with that value; after a notification of false no key is pressed,
   every action reads as not pressed and an update of one tick moves neither
   position.x nor position.z and does not jump. *)
AfterNotification ==
    calls.notified # << >> =>
        /\ Len(calls.notified) = 1
        /\ pointerLockActive = calls.notified[1]
        /\ calls.callbacks =
              (IF pointerLockChangeCallback
               THEN << << "change", calls.notified[1] >> >> ELSE << >>)
              \o (IF pointerLockToggleCallback
                  THEN << << "toggle", calls.notified[1] >> >> ELSE << >>)
        /\ calls.lockChange = B2N(pointerLockChangeCallback)
        /\ calls.lockToggle = B2N(pointerLockToggleCallback)
        /\ ~calls.notified[1] =>
              /\ pressedKeys = {}
              /\ \A a \in MovementActions : ~isActionPressed(World, a)
              /\ \E u \in {update(World, TickUnits)} :
                    /\ u.position.x = position.x /\ u.position.z = position.z
                    /\ u.calls.jump = 0
                    /\ u.velocity.y <= 0

(* C31, continued: the keys a lock loss cleared stay cleared until a keydown
   the keyboard handles; only such a keydown adds a key to the pressed set. *)
C31_LockLossClearsKeys ==
    /\ []AfterNotification
    /\ [][pressedKeys' \subseteq pressedKeys
          \/ (op'.name = "keydown" /\ shouldHandleEvent(World)
              /\ pressedKeys' = pressedKeys \cup {op'.arg})]_vars

(* the host has released the lock of a rig that walked forward in its last
   frame, and both callbacks heard false *)
C31_Witness ==
    /\ op.name = "hostRelease" /\ calls.notified = << FALSE >>
    /\ calls.callbacks = << << "change", FALSE >>, << "toggle", FALSE >> >>
    /\ velocity.z # SZero /\ pressedKeys = {} /\ ~pointerLockActive

-----------------------------------------------------------------------------
(* SpecClamp: look sensitivity and sprint multiplier are set through the
   constructor's options, the setters and updateOptions, with numbers below,
   at and above the floors and with NaN.                                     *)

Sensitivities == {NaN, 0 - 20, 0, 1, 5, 10, 20, 30, 40, 50, 60}
Multipliers == {NaN, 0 - Hundred, 0, 50, Hundred, 150, 200, 250, 300, 350, 400}

ClampOptions ==
    { [enablePointerLock |-> Some(FALSE)],
      [enablePointerLock |-> Some(FALSE), lookSensitivity |-> Some(0),
       sprintMultiplier |-> Some(50)],
      [enablePointerLock |-> Some(FALSE), lookSensitivity |-> Some(0 - 20),
       sprintMultiplier |-> Some(300)] }

InitClamp ==
    \E options \in ClampOptions :
        Construct(options, TRUE, TRUE, NoLookOptions, NewCamera(CameraFov))

NextClamp ==
    \/ \E v \in Sensitivities : SetLookSensitivity(v)
    \/ \E v \in Multipliers : SetSprintMultiplier(v)
    \/ \E v \in Sensitivities : UpdateOptions([lookSensitivity |-> Some(v)])
    \/ \E v \in Multipliers : UpdateOptions([sprintMultiplier |-> Some(v)])

SpecClamp == InitClamp /\ [][NextClamp]_vars

(* C32: in every reachable state lookSensitivity >= 0.0001 and
   sprintMultiplier >= 1, whatever numbers the constructor's options, the
   setters and updateOptions were given. *)
C32_ClampedNotRejected ==
    /\ atLeast(lookSensitivity, 1)
    /\ atLeast(sprintMultiplier, Hundred)

-----------------------------------------------------------------------------
(* SpecCrouch: crouching is enabled and disabled, through enableCrouch and
   through updateOptions, while the rig crouches, stands up and frames run.  *)

CrouchOptions ==
    { [enablePointerLock |-> Some(FALSE), enableCrouch |-> Some(TRUE),
       crouchHeight |-> Some(2560 - 64)],
      [enablePointerLock |-> Some(FALSE), crouchHeight |-> Some(2560 - 64)],
      [enablePointerLock |-> Some(FALSE), enableCrouch |-> None, height |-> Some(1600)] }

InitCrouch ==
    \E options \in CrouchOptions :
        Construct(options, TRUE, TRUE, NoLookOptions, NewCamera(CameraFov))

NextCrouch ==
    \/ \E b \in BOOLEAN : EnableCrouch(b)
    \/ \E b \in BOOLEAN : SetCrouch(b)
    \/ \E o \in {None, Some(FALSE), Some(TRUE)} : UpdateOptions([enableCrouch |-> o])
    \/ Update(TickUnits)

SpecCrouch == InitCrouch /\ [][NextCrouch]_vars

(* C33: isCrouching implies crouchEnabled in every reachable state; setCrouch
   changes nothing while crouch is disabled and sets the flag while it is
   enabled; enableCrouch(false), and updateOptions with enableCrouch false or
   undefined, clear the flag; enableCrouch(true) leaves the flag as it is;
   and the flag only rises by a setCrouch(true) made while crouch is enabled,
   so a rig whose crouch was disabled and enabled again is standing (its
   target height is config.height) until then. *)
C33_CrouchOnlyWhileEnabled ==
    /\ [](isCrouching => crouchEnabled)
    /\ [][/\ op'.name = "setCrouch" =>
               IF crouchEnabled
               THEN isCrouching' = op'.arg /\ crouchEnabled'
               ELSE UNCHANGED <<ctlVars, kbVars, plVars>>
          /\ op'.name = "enableCrouch" =>
               /\ crouchEnabled' = op'.arg
               /\ isCrouching' = (op'.arg /\ isCrouching)
          /\ (op'.name = "updateOptions" /\ Has(op'.arg, "enableCrouch")) =>
               /\ crouchEnabled' = (op'.arg.enableCrouch = Some(TRUE))
               /\ isCrouching' = (crouchEnabled' /\ isCrouching)
          /\ (isCrouching' /\ ~isCrouching) =>
               op'.name = "setCrouch" /\ op'.arg /\ crouchEnabled
          /\ ~isCrouching' => targetHeight(World') = config'.height
         ]_vars

(* crouch was enabled again on a rig that is not crouching and whose height
   is still below its standing height from an earlier crouch *)
C33_Witness ==
    /\ op.name = "enableCrouch" /\ op.arg /\ crouchEnabled /\ ~isCrouching
    /\ currentHeight < config.height /\ position.y = currentHeight

-----------------------------------------------------------------------------
(* C34, under SpecGround: with the default ground check and the default
   gravity, an effective update that starts with onGround true and jump not
   held ends with onGround true and position.y = currentHeight, whatever
   maxStepHeight >= 0 is configured. *)
C34_RestingStaysAtRest ==
    [][(op'.name = "update" /\ Effective(op'.arg) /\ DefaultPhysics
        /\ onGround /\ ~JumpHeld)
       => (onGround' /\ position'.y = currentHeight')]_vars

-----------------------------------------------------------------------------
(* SpecSpawn: rigs built at, above and far above their standing height, with
   the default ground check, run frames of one tick, crouch and change
   height.                                                                   *)

SpawnOptions ==
    { [enablePointerLock |-> Some(FALSE),
       initialPosition |-> Vec(SZero, 5 * UnitsPerMeter, SZero)],
      [enablePointerLock |-> Some(FALSE),
       initialPosition |-> Vec(SZero, 2560 + 160, SZero)],
      [enablePointerLock |-> Some(FALSE), enableCrouch |-> Some(TRUE),
       crouchHeight |-> Some(2560 - 64)] }

InitSpawn ==
    \E options \in SpawnOptions :
        Construct(options, TRUE, TRUE, NoLookOptions, NewCamera(CameraFov))

NextSpawn ==
    \/ Update(TickUnits)
    \/ \E b \in BOOLEAN : SetCrouch(b)
    \/ \E h \in {1600, 2560} : SetMovementConfig([height |-> h])

SpecSpawn == InitSpawn /\ [][NextSpawn]_vars

(* C35: with the default ground check, in every reachable state position.y >
   currentHeight implies that onGround is false. *)
C35_NoGroundContactAbove ==
    (groundCheckFn = "none" /\ position.y > currentHeight) => ~onGround

-----------------------------------------------------------------------------
(* C36, under SpecHeights: after update, setMovementConfig and updateOptions
   the bound camera holds state.position, the orientation built from
   (pitch, yaw, 0) and the stored field of view. *)
C36_CameraMirrorsController ==
    op.name \in {"update", "setMovementConfig", "updateOptions"} => camera = cameraOf(World)

-----------------------------------------------------------------------------
(* SpecTuning: move speed, jump speed and gravity are changed through
   setMovementConfig and updateOptions on a rig that crouches and stands up
   in frames of one tick, so that changes arrive in the middle of a height
   blend.                                                                    *)

TuningOptions ==
    { [enablePointerLock |-> Some(FALSE), enableCrouch |-> Some(TRUE),
       crouchHeight |-> Some(2560 - 64)] }

Tunings ==
    { [moveSpeed |-> 640], [jumpSpeed |-> 240], [gravity |-> 40],
      [moveSpeed |-> 400, jumpSpeed |-> 400, gravity |-> 80] }

InitTuning ==
    \E options \in TuningOptions :
        Construct(options, TRUE, TRUE, NoLookOptions, NewCamera(CameraFov))

NextTuning ==
    \/ Update(TickUnits)
    \/ \E b \in BOOLEAN : SetCrouch(b)
    \/ \E cfg \in Tunings : SetMovementConfig(cfg)
    \/ \E cfg \in Tunings : UpdateOptions([k \in DOMAIN cfg |-> Some(cfg[k])])

SpecTuning == InitTuning /\ [][NextTuning]_vars

(* C37: a setMovementConfig or updateOptions call that carries only
   moveSpeed, jumpSpeed or gravity leaves position, velocity, onGround,
   crouchHeight and currentHeight unchanged, also in the middle of a crouch
   or stand-up height blend. *)
C37_TuningLeavesTheRig ==
    [][(op'.name \in {"setMovementConfig", "updateOptions"}
        /\ DOMAIN op'.arg \subseteq {"moveSpeed", "jumpSpeed", "gravity"})
       => UNCHANGED <<heap, onGround, crouchHeight, currentHeight>>]_vars

-----------------------------------------------------------------------------
(* C38, under SpecKeyboard: right after the keyup of a key code, no action is
   reported pressed on account of that code, whatever the focus and the
   pointer lock were doing. *)
C38_NoStuckKey ==
    op.name = "keyup" =>
        \A action \in MovementActions : op.arg \notin bound(action) \cap pressedKeys

-----------------------------------------------------------------------------
(* C39, under SpecPointerMotion: once pointer lock is disabled and the host
   has no request or exit left to process, the pointer is not locked and the
   keyboard's pointerLockActive is false. *)
C39_DisabledLockNotHeld ==
    (~plEnabled /\ hostPending = {}) => (~isLocked(World) /\ ~pointerLockActive)

-----------------------------------------------------------------------------
(* C40, under SpecDispose: a pointer-lock notification is delivered only
   when the lock state changes, with the new state: true when the host
   grants the lock, false when the host releases it, and none during
   construction, exitLock or dispose while the pointer is not locked. *)
C40_NotifiedOnTransitionsOnly ==
    calls.notified # << >> =>
        \/ op.name = "hostGrant" /\ calls.notified = << TRUE >> /\ isLocked(World)
        \/ op.name = "hostRelease" /\ calls.notified = << FALSE >> /\ ~isLocked(World)

====
